---- MODULE Spec2Model ----
(***************************************************************************)
(* Workflow Orchestration Core of the contract-first multi-agent pipeline: *)
(* the shared team session state, the JSON contract gate, the revision     *)
(* manager, the phase state machine, the error/recovery coordinator, the   *)
(* agent handoff logger, and the artifact extractor and materializer that  *)
(* turn an agent's response text into files.                               *)
(*                                                                         *)
(* A text is a sequence of atoms.  An atom is one punctuation character,   *)
(* one whitespace character, one digit, or a word of letters; a word never *)
(* contains a character that a markdown indicator or the JSON grammar      *)
(* looks at, so substring tests over atoms agree with the tests over       *)
(* characters.                                                             *)
(***************************************************************************)
EXTENDS Integers, Sequences, FiniteSets, TLC

VARIABLES team_session_state, clock, result, rm_version, rm_change, rm_out,
          response_text, artifacts, files, dirs, created_files, unwritable, stage,
          validation_input

vars == <<team_session_state, clock, result, rm_version, rm_change, rm_out,
          response_text, artifacts, files, dirs, created_files, unwritable, stage,
          validation_input>>

\* validation_input is the data and the schema handed to the schema
\* validator, the empty set while it has not been called

\* the variables of the artifact pipeline: the response text of an agent, the
\* artifacts extracted from it, the files on disk (path to content), the
\* directories on disk, the returned list of created files, the paths that
\* the file system refuses to open for writing, and how far the pipeline has
\* got
pipeline_vars == <<response_text, artifacts, files, dirs, created_files, unwritable, stage>>

\* no response has been received
PipelineIdle ==
    /\ response_text = <<>>
    /\ artifacts = <<>>
    /\ files = [path \in {} |-> <<>>]
    /\ dirs = {}
    /\ created_files = <<>>
    /\ unwritable = {}
    /\ stage = "idle"

(***************************************************************************)
(* Bounds of the model.                                                    *)
(***************************************************************************)
\* last instant of the clock: the number of writing calls that are followed
MaxClock == 3
\* the number of writing calls followed in a session that uses every tool
MaxSessionClock == 2
\* largest component of a version string given to the revision manager
MaxPart == 2

(***************************************************************************)
(* Generic helpers.                                                        *)
(***************************************************************************)
Min(S) == CHOOSE x \in S : \A y \in S : x <= y

\* dict.get(k, d)
Get(d, k, default) == IF k \in DOMAIN d THEN d[k] ELSE default

\* d[k] = v
Put(d, k, v) == [x \in (DOMAIN d) \cup {k} |-> IF x = k THEN v ELSE d[x]]

\* the substring test: ind in text
Contains(text, ind) ==
    \E i \in 1..(Len(text) - Len(ind) + 1) : SubSeq(text, i, i + Len(ind) - 1) = ind

Whitespace == {" ", "\n"}

Digits == {"0", "1", "2", "3", "4", "5", "6", "7", "8", "9"}

\* str.strip(): the text without leading and trailing whitespace
Strip(text) ==
    LET idx == {i \in 1..Len(text) : text[i] \notin Whitespace}
    IN  IF idx = {} THEN <<>>
        ELSE SubSeq(text, Min(idx), CHOOSE j \in idx : \A k \in idx : k <= j)

(***************************************************************************)
(* Documents: a parsed JSON object is a set of entries [k, t, s], at most  *)
(* one per key k; t is the JSON type of the value and s its text (for a    *)
(* string the characters between the quotes).                              *)
(***************************************************************************)
DocGet(doc, key, default) ==
    IF \E e \in doc : e.k = key
    THEN (CHOOSE e \in doc : e.k = key).s
    ELSE default

DocPut(doc, key, type, text) ==
    {e \in doc : e.k # key} \cup {[k |-> key, t |-> type, s |-> text]}

(***************************************************************************)
(* json.loads over the atoms: objects, arrays, strings, unsigned integers  *)
(* and the three literals.  Each Parse operator takes the position of the  *)
(* first atom of the element and returns the position after its last atom, *)
(* or 0 when the element is malformed.                                     *)
(***************************************************************************)
RECURSIVE SkipWs(_, _)
SkipWs(t, i) == IF i <= Len(t) /\ t[i] \in Whitespace THEN SkipWs(t, i + 1) ELSE i

ParseString(t, i) ==
    IF i > Len(t) \/ t[i] # "\""
    THEN 0
    ELSE LET closing == {j \in (i + 1)..Len(t) : t[j] = "\""}
         IN  IF closing = {} THEN 0
             ELSE IF \E k \in (i + 1)..(Min(closing) - 1) : t[k] = "\n" THEN 0
             ELSE Min(closing) + 1

RECURSIVE DigitsEnd(_, _)
DigitsEnd(t, i) == IF i <= Len(t) /\ t[i] \in Digits THEN DigitsEnd(t, i + 1) ELSE i

ParseNumber(t, i) == IF t[i] = "0" THEN i + 1 ELSE DigitsEnd(t, i)

RECURSIVE ParseValue(_, _)
RECURSIVE ParseMembers(_, _)
RECURSIVE ParseElements(_, _)

ParseValue(t, i) ==
    IF i > Len(t) THEN 0
    ELSE IF t[i] = "{"
         THEN LET j == SkipWs(t, i + 1)
              IN  IF j <= Len(t) /\ t[j] = "}" THEN j + 1 ELSE ParseMembers(t, j)
    ELSE IF t[i] = "["
         THEN LET j == SkipWs(t, i + 1)
              IN  IF j <= Len(t) /\ t[j] = "]" THEN j + 1 ELSE ParseElements(t, j)
    ELSE IF t[i] = "\"" THEN ParseString(t, i)
    ELSE IF t[i] \in Digits THEN ParseNumber(t, i)
    ELSE IF t[i] \in {"true", "false", "null"} THEN i + 1
    ELSE 0

\* members of an object from the key at position j up to the closing brace
ParseMembers(t, j) ==
    LET k == ParseString(t, j)
        c == SkipWs(t, k)
        e == ParseValue(t, SkipWs(t, c + 1))
        n == SkipWs(t, e)
    IN  IF k = 0 THEN 0
        ELSE IF c > Len(t) \/ t[c] # ":" THEN 0
        ELSE IF e = 0 \/ n > Len(t) THEN 0
        ELSE IF t[n] = "}" THEN n + 1
        ELSE IF t[n] = "," THEN ParseMembers(t, SkipWs(t, n + 1))
        ELSE 0

\* elements of an array from the value at position j up to the closing bracket
ParseElements(t, j) ==
    LET e == ParseValue(t, j)
        n == SkipWs(t, e)
    IN  IF e = 0 \/ n > Len(t) THEN 0
        ELSE IF t[n] = "]" THEN n + 1
        ELSE IF t[n] = "," THEN ParseElements(t, SkipWs(t, n + 1))
        ELSE 0

JsonType(t, i) ==
    IF t[i] = "{" THEN "object"
    ELSE IF t[i] = "[" THEN "array"
    ELSE IF t[i] = "\"" THEN "string"
    ELSE IF t[i] \in Digits THEN "number"
    ELSE "literal"

\* the dict built from the members of a well-formed object; a repeated key
\* keeps its last value
RECURSIVE ObjectEntries(_, _, _)
ObjectEntries(t, j, acc) ==
    IF t[j] = "}" THEN acc
    ELSE LET k == ParseString(t, j)
             v == SkipWs(t, SkipWs(t, k) + 1)
             e == ParseValue(t, v)
             n == SkipWs(t, e)
             key == SubSeq(t, j + 1, k - 2)
             text == IF t[v] = "\"" THEN SubSeq(t, v + 1, e - 2) ELSE SubSeq(t, v, e - 1)
             acc2 == DocPut(acc, key, JsonType(t, v), text)
         IN  IF t[n] = "," THEN ObjectEntries(t, SkipWs(t, n + 1), acc2) ELSE acc2

\* JSONValidator.validate_json_string
validate_json_string(json_string) ==
    LET start == SkipWs(json_string, 1)
        end == ParseValue(json_string, start)
    IN  IF end # 0 /\ SkipWs(json_string, end) = Len(json_string) + 1
        THEN [valid |-> TRUE,
              type |-> JsonType(json_string, start),
              data |-> IF json_string[start] = "{"
                       THEN ObjectEntries(json_string, SkipWs(json_string, start + 1), {})
                       ELSE {}]
        ELSE [valid |-> FALSE, type |-> "none", data |-> {}]

\* the atom of the backquote character, which a string literal cannot hold
Backquote == "<backquote>"

markdown_indicators ==
    << <<Backquote, Backquote, Backquote>>, <<"#", "#">>, <<"*", "*">>, <<"*">>, <<"_">>, <<"[">>,
       <<"]">>, <<"<", "!", "-", "-">>, <<"/", "/">>, <<"#">> >>

\* JSONValidator.has_markdown_or_comments
has_markdown_or_comments(text) ==
    \/ \E n \in 1..Len(markdown_indicators) : Contains(text, markdown_indicators[n])
    \/ LET stripped == Strip(text)
       IN  ~(stripped # <<>> /\ stripped[1] \in {"{", "["})

(***************************************************************************)
(* Revision manager.  A version string is a sequence of atoms such as      *)
(* <<"1", ".", "4", ".", "9">>.                                            *)
(***************************************************************************)
\* str.split(".")
RECURSIVE Split(_)
Split(s) ==
    LET dots == {i \in 1..Len(s) : s[i] = "."}
    IN  IF dots = {} THEN <<s>>
        ELSE <<SubSeq(s, 1, Min(dots) - 1)>> \o Split(SubSeq(s, Min(dots) + 1, Len(s)))

DigitValue(c) ==
    CASE c = "0" -> 0 [] c = "1" -> 1 [] c = "2" -> 2 [] c = "3" -> 3 [] c = "4" -> 4
      [] c = "5" -> 5 [] c = "6" -> 6 [] c = "7" -> 7 [] c = "8" -> 8 [] c = "9" -> 9

DigitChar(n) == <<"0", "1", "2", "3", "4", "5", "6", "7", "8", "9">>[n + 1]

\* int(s) succeeds on a non-empty run of digits (ValueError otherwise)
IsInt(s) == s # <<>> /\ \A i \in 1..Len(s) : s[i] \in Digits

RECURSIVE ToInt(_)
ToInt(s) == IF s = <<>> THEN 0 ELSE 10 * ToInt(SubSeq(s, 1, Len(s) - 1)) + DigitValue(s[Len(s)])

\* str(n) for n >= 0
RECURSIVE ToStr(_)
ToStr(n) == IF n < 10 THEN <<DigitChar(n)>> ELSE ToStr(n \div 10) \o <<DigitChar(n % 10)>>

\* RevisionManager.parse_version
parse_version(version) ==
    LET parts == Split(version)
        fails == \/ ~IsInt(parts[1])
                 \/ Len(parts) > 1 /\ ~IsInt(parts[2])
                 \/ Len(parts) > 2 /\ ~IsInt(parts[3])
    IN  IF fails
        THEN [major |-> 1, minor |-> 0, patch |-> 0]
        ELSE [major |-> ToInt(parts[1]),
              minor |-> IF Len(parts) > 1 THEN ToInt(parts[2]) ELSE 0,
              patch |-> IF Len(parts) > 2 THEN ToInt(parts[3]) ELSE 0]

\* f"{major}.{minor}.{patch}"
FormatVersion(v) == ToStr(v.major) \o <<".">> \o ToStr(v.minor) \o <<".">> \o ToStr(v.patch)

\* a faulty increment_version: a minor change keeps the patch number
increment_version_keeping_patch(current_version, change_type) ==
    LET version_parts == parse_version(current_version)
    IN  IF change_type = "major" \/ change_type = "planner_regen"
        THEN FormatVersion([major |-> version_parts.major + 1, minor |-> 0, patch |-> 0])
        ELSE IF change_type = "minor" \/ change_type = "spec_regen"
        THEN FormatVersion([major |-> version_parts.major,
                            minor |-> version_parts.minor + 1,
                            patch |-> version_parts.patch])
        ELSE FormatVersion([major |-> version_parts.major,
                            minor |-> version_parts.minor,
                            patch |-> version_parts.patch + 1])

\* RevisionManager.increment_version
increment_version(current_version, change_type) ==
    LET version_parts == parse_version(current_version)
    IN  IF change_type = "major" \/ change_type = "planner_regen"
        THEN FormatVersion([major |-> version_parts.major + 1, minor |-> 0, patch |-> 0])
        ELSE IF change_type = "minor" \/ change_type = "spec_regen"
        THEN FormatVersion([major |-> version_parts.major,
                            minor |-> version_parts.minor + 1, patch |-> 0])
        ELSE FormatVersion([major |-> version_parts.major,
                            minor |-> version_parts.minor,
                            patch |-> version_parts.patch + 1])

(***************************************************************************)
(* The texts that callers submit in this model.                            *)
(***************************************************************************)
Q == "\""

\* {"a":1}
TextPlain == <<"{", Q, "a", Q, ":", "1", "}">>
\* {}
TextEmptyObject == <<"{", "}">>
\* {"revision":"0.0.1"}
TextWithRevision == <<"{", Q, "revision", Q, ":", Q, "0", ".", "0", ".", "1", Q, "}">>
\* {"a":1   (the closing brace is missing)
TextTruncated == <<"{", Q, "a", Q, ":", "1">>
\* not json
TextNotJson == <<"not", " ", "json">>
\* a fenced block: three backquotes, json, newline, {"a":1}, newline, three backquotes
TextFenced == <<Backquote, Backquote, Backquote, "json", "\n">> \o TextPlain
              \o <<"\n", Backquote, Backquote, Backquote>>
\* {"project_name":1}
TextUnderscore == <<"{", Q, "project", "_", "name", Q, ":", "1", "}">>
\* {"a":[1]}
TextArray == <<"{", Q, "a", Q, ":", "[", "1", "]", "}">>
\* the empty string
TextEmpty == <<>>

Texts == {TextPlain, TextEmptyObject, TextWithRevision, TextTruncated, TextNotJson,
          TextFenced, TextUnderscore, TextArray}

AllTexts == Texts \cup {TextEmpty}

\* the outcome of the two gates on each text of the model, computed once
JsonResult == [text \in AllTexts |-> validate_json_string(text)]

MarkdownResult == [text \in AllTexts |-> has_markdown_or_comments(text)]

(***************************************************************************)
(* Time.  The clock counts instants; every call that writes to the session *)
(* takes place at a new instant and all its readings of the clock return   *)
(* that instant.  Two instants make one second.                            *)
(***************************************************************************)
\* datetime.isoformat(): the text of an instant
Isoformat(t) == ToStr(t)

\* int(datetime.timestamp()): the second an instant falls in
SecondOf(t) == t \div 2

(***************************************************************************)
(* Workflow phases and statuses.                                           *)
(***************************************************************************)
WorkflowPhase ==
    {"planning", "spec_generation", "backend_generation", "frontend_generation",
     "validation", "completed", "error"}

WorkflowStatus == {"initialized", "in_progress", "waiting_for_input", "completed", "failed"}

\* a faulty table: planning also lists validation as a successor
valid_transitions_with_shortcut ==
    [p \in WorkflowPhase |->
        CASE p = "planning" -> {"spec_generation", "validation"}
          [] p = "spec_generation" -> {"backend_generation", "frontend_generation"}
          [] p = "backend_generation" -> {"frontend_generation", "validation"}
          [] p = "frontend_generation" -> {"validation", "completed"}
          [] p = "validation" -> {"completed", "planning"}
          [] p = "completed" -> {"planning"}
          [] p = "error" -> {"planning", "spec_generation"}]

\* the table of transition_workflow_phase, each list as a set
valid_transitions ==
    [p \in WorkflowPhase |->
        CASE p = "planning" -> {"spec_generation"}
          [] p = "spec_generation" -> {"backend_generation", "frontend_generation"}
          [] p = "backend_generation" -> {"frontend_generation", "validation"}
          [] p = "frontend_generation" -> {"validation", "completed"}
          [] p = "validation" -> {"completed", "planning"}
          [] p = "completed" -> {"planning"}
          [] p = "error" -> {"planning", "spec_generation"}]

(***************************************************************************)
(* Inputs of the tool calls.                                               *)
(***************************************************************************)
\* target_phase is any string the caller passes: the seven phases and one other
TargetPhases == WorkflowPhase \cup {"deployment"}

ErrorTypes == {"validation_failure", "agent_error", "state_corruption"}

RecoveryActions == {"retry", "regenerate", "rollback"}

ChangeTypes == {"major", "minor", "patch", "planner_regen", "spec_regen", "bug_fix"}

RevisionTypes == {"major", "minor", "patch"}

AgentNames == {"ApiSpecGenerator"}

PlanTexts == Texts \ {TextWithRevision}

SpecTexts == {TextWithRevision, TextTruncated, TextArray}

ReportTexts == {TextPlain, TextTruncated, TextUnderscore}

\* handoff_data: None (the empty set) or one text
HandoffData == {{}, {TextEmpty}, {TextPlain}, {TextTruncated}}

(***************************************************************************)
(* The session state.  team_session_state is the dict itself: a function   *)
(* whose domain is the set of keys present.  None is the empty set and a   *)
(* stored record r is {r}.                                                 *)
(***************************************************************************)
\* team_session_state of create_contract_first_orchestrator
OrchestratorState ==
    [project_plan |-> {}, api_spec |-> {}, backend_report |-> {}, frontend_report |-> {},
     current_phase |-> "planning", workflow_status |-> "initialized",
     last_phase_update |-> Isoformat(0),
     api_spec_revision |-> <<"1", ".", "0", ".", "0">>, api_spec_history |-> <<>>,
     error_history |-> <<>>, last_error |-> {},
     handoff_history |-> <<>>, last_handoff |-> {}, phase_history |-> <<>>,
     validation_reports |-> <<>>, contract_compliance_status |-> "pending"]

\* a session state that holds no entries yet
EmptyState == [k \in {} |-> {}]

Ret(tool, status) == [tool |-> tool, status |-> status]

\* the session of the orchestrator team
Init ==
    /\ team_session_state = OrchestratorState
    /\ clock = 0
    /\ result = Ret("none", "none")
    /\ rm_version = <<>>
    /\ rm_change = "none"
    /\ rm_out = <<>>
    /\ PipelineIdle
    /\ validation_input = {}

\* a session whose state dict is still empty, as an agent outside the team has it
InitEmptySession ==
    /\ team_session_state = EmptyState
    /\ clock = 0
    /\ result = Ret("none", "none")
    /\ rm_version = <<>>
    /\ rm_change = "none"
    /\ rm_out = <<>>
    /\ PipelineIdle
    /\ validation_input = {}

(***************************************************************************)
(* Readings of the session state.                                          *)
(***************************************************************************)
CurrentPhase == Get(team_session_state, "current_phase", "planning")

WorkflowStatusNow == Get(team_session_state, "workflow_status", "initialized")

ProjectPlan == Get(team_session_state, "project_plan", {})

ApiSpec == Get(team_session_state, "api_spec", {})

PhaseHistory == Get(team_session_state, "phase_history", <<>>)

ErrorHistory == Get(team_session_state, "error_history", <<>>)

HandoffHistory == Get(team_session_state, "handoff_history", <<>>)

ApiSpecHistory == Get(team_session_state, "api_spec_history", <<>>)

(***************************************************************************)
(* Phase state machine.                                                    *)
(***************************************************************************)
\* a faulty prerequisite check: frontend_generation is not checked
PrerequisiteStatus_backend_only(shared_state, target_phase) ==
    IF target_phase = "spec_generation" /\ Get(shared_state, "project_plan", {}) = {}
    THEN "project_plan_required"
    ELSE IF target_phase = "backend_generation" /\ Get(shared_state, "api_spec", {}) = {}
    THEN "api_spec_required"
    ELSE "ok"

\* the prerequisite of the target phase: the error it raises, or "ok"
PrerequisiteStatus(shared_state, target_phase) ==
    IF target_phase = "spec_generation" /\ Get(shared_state, "project_plan", {}) = {}
    THEN "project_plan_required"
    ELSE IF target_phase = "backend_generation" /\ Get(shared_state, "api_spec", {}) = {}
    THEN "api_spec_required"
    ELSE IF target_phase = "frontend_generation" /\ Get(shared_state, "api_spec", {}) = {}
    THEN "api_spec_required"
    ELSE "ok"

\* a faulty validation: the table is not consulted, only the prerequisites
TransitionStatus_without_table(shared_state, target_phase, validation_required) ==
    IF validation_required
    THEN PrerequisiteStatus(shared_state, target_phase)
    ELSE "ok"

\* a faulty validation: the table is consulted for the forced transition too
TransitionStatus_always_validating(shared_state, target_phase, validation_required) ==
    LET current_phase == Get(shared_state, "current_phase", "planning")
    IN  IF target_phase \notin Get(valid_transitions, current_phase, {})
        THEN "invalid_transition"
        ELSE IF validation_required
        THEN PrerequisiteStatus(shared_state, target_phase)
        ELSE "ok"

\* what transition_workflow_phase returns: an error, or "ok"
TransitionStatus(shared_state, target_phase, validation_required) ==
    LET current_phase == Get(shared_state, "current_phase", "planning")
    IN  IF validation_required /\ target_phase \notin Get(valid_transitions, current_phase, {})
        THEN "invalid_transition"
        ELSE IF validation_required
        THEN PrerequisiteStatus(shared_state, target_phase)
        ELSE "ok"

\* a faulty transition: the history entry has its two phases exchanged
TransitionState_exchanged(shared_state, target_phase, validation_required, now) ==
    LET current_phase == Get(shared_state, "current_phase", "planning")
        entry == [from_phase |-> target_phase, to_phase |-> current_phase,
                  timestamp |-> Isoformat(now),
                  transition_type |-> IF ~validation_required THEN "automatic" ELSE "validated"]
    IN  IF TransitionStatus(shared_state, target_phase, validation_required) # "ok"
        THEN shared_state
        ELSE Put(Put(Put(Put(shared_state,
                 "current_phase", target_phase),
                 "workflow_status", "in_progress"),
                 "last_phase_update", Isoformat(now)),
                 "phase_history", Append(Get(shared_state, "phase_history", <<>>), entry))

\* the session state that transition_workflow_phase leaves
TransitionState(shared_state, target_phase, validation_required, now) ==
    LET current_phase == Get(shared_state, "current_phase", "planning")
        entry == [from_phase |-> current_phase, to_phase |-> target_phase,
                  timestamp |-> Isoformat(now),
                  transition_type |-> IF ~validation_required THEN "automatic" ELSE "validated"]
    IN  IF TransitionStatus(shared_state, target_phase, validation_required) # "ok"
        THEN shared_state
        ELSE Put(Put(Put(Put(shared_state,
                 "current_phase", target_phase),
                 "workflow_status", "in_progress"),
                 "last_phase_update", Isoformat(now)),
                 "phase_history", Append(Get(shared_state, "phase_history", <<>>), entry))

\* a faulty transition: last_phase_update is stamped before the validation
transition_workflow_phase_stamping(target_phase, validation_required) ==
    LET status == TransitionStatus(team_session_state, target_phase, validation_required)
        now == clock + 1
    IN  /\ UNCHANGED <<rm_version, rm_change, rm_out, pipeline_vars, validation_input>>
        /\ clock < MaxClock
        /\ clock' = now
        /\ result' = Ret("transition_workflow_phase", status)
        /\ team_session_state' =
               TransitionState(Put(team_session_state, "last_phase_update", Isoformat(now)),
                               target_phase, validation_required, now)

transition_workflow_phase(target_phase, validation_required) ==
    LET status == TransitionStatus(team_session_state, target_phase, validation_required)
        now == clock + 1
    IN  /\ UNCHANGED <<rm_version, rm_change, rm_out, pipeline_vars, validation_input>>
        /\ status = "ok" => clock < MaxClock
        /\ clock' = IF status = "ok" THEN now ELSE clock
        /\ result' = Ret("transition_workflow_phase", status)
        /\ team_session_state' =
               TransitionState(team_session_state, target_phase, validation_required, now)

(***************************************************************************)
(* Error/recovery coordinator and agent handoff logger.                    *)
(***************************************************************************)
ErrorEntry(shared_state, error_type, error_message, recovery_action, now) ==
    [timestamp |-> Isoformat(now),
     phase |-> Get(shared_state, "current_phase", "planning"),
     error_type |-> error_type, error_message |-> error_message,
     recovery_action |-> recovery_action]

\* a faulty log: the newest error is put first
LogError_newest_first(shared_state, error_entry) ==
    Put(Put(Put(shared_state,
        "error_history", <<error_entry>> \o Get(shared_state, "error_history", <<>>)),
        "workflow_status", "failed"),
        "last_error", {error_entry})

\* a faulty log: logging the error also stamps last_phase_update
LogError_stamping(shared_state, error_entry) ==
    Put(Put(Put(Put(shared_state,
        "error_history", Append(Get(shared_state, "error_history", <<>>), error_entry)),
        "workflow_status", "failed"),
        "last_error", {error_entry}),
        "last_phase_update", error_entry.timestamp)

\* the error is logged and the workflow marked failed
LogError(shared_state, error_entry) ==
    Put(Put(Put(shared_state,
        "error_history", Append(Get(shared_state, "error_history", <<>>), error_entry)),
        "workflow_status", "failed"),
        "last_error", {error_entry})

\* a faulty recovery: regenerate goes back to planning for every error type
Recover_regenerating_from_planning(shared_state, error_type, recovery_action) ==
    LET phase_history == Get(shared_state, "phase_history", <<>>)
        last_successful == IF Len(phase_history) > 1
                           THEN phase_history[Len(phase_history) - 1]
                           ELSE phase_history[Len(phase_history)]
    IN  IF recovery_action = "retry" THEN shared_state
        ELSE IF recovery_action = "regenerate"
        THEN Put(shared_state, "current_phase", "planning")
        ELSE IF recovery_action = "rollback"
        THEN IF phase_history # <<>>
             THEN Put(shared_state, "current_phase", last_successful.from_phase)
             ELSE Put(shared_state, "current_phase", "planning")
        ELSE shared_state

\* a faulty recovery: rollback always reads the last entry of phase_history
Recover_reading_last_entry(shared_state, error_type, recovery_action) ==
    LET phase_history == Get(shared_state, "phase_history", <<>>)
        last_successful == phase_history[Len(phase_history)]
    IN  IF recovery_action = "retry" THEN shared_state
        ELSE IF recovery_action = "regenerate"
        THEN IF error_type = "validation_failure"
             THEN Put(shared_state, "current_phase", "spec_generation")
             ELSE Put(shared_state, "current_phase", "planning")
        ELSE IF recovery_action = "rollback"
        THEN IF phase_history # <<>>
             THEN Put(shared_state, "current_phase", last_successful.from_phase)
             ELSE Put(shared_state, "current_phase", "planning")
        ELSE shared_state

\* the recovery strategy, applied to the state in which the error is logged
Recover(shared_state, error_type, recovery_action) ==
    LET phase_history == Get(shared_state, "phase_history", <<>>)
        last_successful == IF Len(phase_history) > 1
                           THEN phase_history[Len(phase_history) - 1]
                           ELSE phase_history[Len(phase_history)]
    IN  IF recovery_action = "retry" THEN shared_state
        ELSE IF recovery_action = "regenerate"
        THEN IF error_type = "validation_failure"
             THEN Put(shared_state, "current_phase", "spec_generation")
             ELSE Put(shared_state, "current_phase", "planning")
        ELSE IF recovery_action = "rollback"
        THEN IF phase_history # <<>>
             THEN Put(shared_state, "current_phase", last_successful.from_phase)
             ELSE Put(shared_state, "current_phase", "planning")
        ELSE shared_state

\* a faulty handler: the error is logged after the recovery has set the phase
handle_workflow_error_recovering_first(error_type, error_message, recovery_action) ==
    LET now == clock + 1
        recovered == Recover(team_session_state, error_type, recovery_action)
        error_entry == ErrorEntry(recovered, error_type, error_message, recovery_action, now)
    IN  /\ UNCHANGED <<rm_version, rm_change, rm_out, pipeline_vars, validation_input>>
        /\ clock < MaxClock
        /\ clock' = now
        /\ result' = Ret("handle_workflow_error", recovery_action)
        /\ team_session_state' = LogError(recovered, error_entry)

handle_workflow_error(error_type, error_message, recovery_action) ==
    LET now == clock + 1
        error_entry ==
            ErrorEntry(team_session_state, error_type, error_message, recovery_action, now)
    IN  /\ UNCHANGED <<rm_version, rm_change, rm_out, pipeline_vars, validation_input>>
        /\ clock < MaxClock
        /\ clock' = now
        /\ result' = Ret("handle_workflow_error", recovery_action)
        /\ team_session_state' =
               Recover(LogError(team_session_state, error_entry), error_type, recovery_action)

\* the handoff is logged
LogHandoff(shared_state, handoff_entry) ==
    Put(shared_state, "handoff_history",
        Append(Get(shared_state, "handoff_history", <<>>), handoff_entry))

\* the payload is supplied, not empty, and fails the JSON validation
HandoffRejected(handoff_data) ==
    /\ handoff_data # {} /\ handoff_data # {<<>>}
    /\ \E text \in handoff_data : ~JsonResult[text].valid

\* a faulty handoff: the payload is validated before the handoff is logged
coordinate_agent_handoff_validating_first(from_agent, to_agent, handoff_data) ==
    LET shared_state == team_session_state
        now == clock + 1
        handoff_entry == [timestamp |-> Isoformat(now), from_agent |-> from_agent,
                          to_agent |-> to_agent,
                          phase |-> Get(shared_state, "current_phase", "unknown"),
                          data_included |-> handoff_data # {}]
        logged == LogHandoff(shared_state, handoff_entry)
    IN  /\ UNCHANGED <<rm_version, rm_change, rm_out, pipeline_vars, validation_input>>
        /\ IF HandoffRejected(handoff_data)
           THEN /\ UNCHANGED <<team_session_state, clock>>
                /\ result' = Ret("coordinate_agent_handoff", "invalid_json")
           ELSE /\ clock < MaxClock
                /\ clock' = now
                /\ team_session_state' =
                       Put(Put(logged, "last_handoff", {handoff_entry}),
                           "workflow_status", "in_progress")
                /\ result' = Ret("coordinate_agent_handoff", "ok")

coordinate_agent_handoff(from_agent, to_agent, handoff_data) ==
    LET shared_state == team_session_state
        now == clock + 1
        handoff_entry == [timestamp |-> Isoformat(now), from_agent |-> from_agent,
                          to_agent |-> to_agent,
                          phase |-> Get(shared_state, "current_phase", "unknown"),
                          data_included |-> handoff_data # {}]
        logged == LogHandoff(shared_state, handoff_entry)
    IN  /\ UNCHANGED <<rm_version, rm_change, rm_out, pipeline_vars, validation_input>>
        /\ clock < MaxClock
        /\ clock' = now
        /\ IF HandoffRejected(handoff_data)
           THEN /\ team_session_state' = logged
                /\ result' = Ret("coordinate_agent_handoff", "invalid_json")
           ELSE /\ team_session_state' =
                       Put(Put(logged, "last_handoff", {handoff_entry}),
                           "workflow_status", "in_progress")
                /\ result' = Ret("coordinate_agent_handoff", "ok")

(***************************************************************************)
(* Revision management.                                                    *)
(***************************************************************************)
\* RevisionManager.create_revision_metadata at instant now
create_revision_metadata(agent_name, change_type, description, now) ==
    [timestamp |-> Isoformat(now), agent |-> agent_name, change_type |-> change_type,
     description |-> description,
     revision_id |-> <<agent_name, "_">> \o ToStr(SecondOf(now))]

\* the default of .get("revision", "1.0.0")
DefaultRevision == <<"1", ".", "0", ".", "0">>

\* a faulty reset: spec_regen resets the workflow to planning like a major change
RevisionReset_spec_regen_to_planning(shared_state, change_type) ==
    IF change_type \in {"major", "planner_regen", "spec_regen"}
    THEN Put(shared_state, "current_phase", "planning")
    ELSE IF change_type = "minor"
    THEN Put(shared_state, "current_phase", "spec_generation")
    ELSE shared_state

\* the phase reset that a change type triggers
RevisionReset(shared_state, change_type) ==
    IF change_type \in {"major", "planner_regen"}
    THEN Put(shared_state, "current_phase", "planning")
    ELSE IF change_type \in {"minor", "spec_regen"}
    THEN Put(shared_state, "current_phase", "spec_generation")
    ELSE shared_state

manage_api_spec_revision(change_type, description) ==
    LET shared_state == team_session_state
        api_spec == Get(shared_state, "api_spec", {})
        now == clock + 1
        current_revision == DocGet(api_spec, <<"revision">>, DefaultRevision)
        new_revision == increment_version(current_revision, change_type)
        new_spec == DocPut(DocPut(DocPut(api_spec,
                        <<"revision">>, "string", new_revision),
                        <<"updated_at">>, "string", Isoformat(now)),
                        <<"change_description">>, "string", description)
        revision_metadata ==
            create_revision_metadata("ContractFirstOrchestrator", change_type, description, now)
        stored == Put(Put(Put(shared_state,
                      "api_spec", new_spec),
                      "api_spec_revision", new_revision),
                      "api_spec_history",
                          Append(Get(shared_state, "api_spec_history", <<>>), revision_metadata))
    IN  /\ UNCHANGED <<rm_version, rm_change, rm_out, pipeline_vars, validation_input>>
        /\ IF api_spec = {}
           THEN /\ result' = Ret("manage_api_spec_revision", "no_api_spec")
                /\ UNCHANGED <<team_session_state, clock>>
           ELSE /\ clock < MaxClock
                /\ clock' = now
                /\ result' = Ret("manage_api_spec_revision", "ok")
                /\ team_session_state' = RevisionReset(stored, change_type)

(***************************************************************************)
(* Shared state store.                                                     *)
(***************************************************************************)
\* `hasattr(agent, 'team_session_state') and agent.team_session_state`: a dict
\* is true when it holds at least one key
HasSessionState(shared_state) == DOMAIN shared_state # {}

\* a faulty gate: the text is not searched for markdown or commentary
GateStatus_json_only(text) ==
    IF ~JsonResult[text].valid THEN "invalid_json" ELSE "ok"

\* the validation gate of the update tools: the error it raises, or "ok"
GateStatus(text) ==
    IF ~JsonResult[text].valid THEN "invalid_json"
    ELSE IF MarkdownResult[text] THEN "markdown"
    ELSE "ok"

\* what an update tool returns
UpdateStatus(shared_state, text) ==
    IF GateStatus(text) # "ok" THEN GateStatus(text)
    ELSE IF HasSessionState(shared_state) THEN "ok"
    ELSE "validated"

\* an update tool: status and stored are what it returns and what it leaves
UpdateCall(tool, status, stored) ==
    /\ UNCHANGED <<rm_version, rm_change, rm_out, pipeline_vars, validation_input>>
    /\ status = "ok" => clock < MaxClock
    /\ clock' = IF status = "ok" THEN clock + 1 ELSE clock
    /\ result' = Ret(tool, status)
    /\ team_session_state' = IF status = "ok" THEN stored ELSE team_session_state

update_project_plan(agent_name, plan_data) ==
    LET now == clock + 1
    IN  UpdateCall("update_project_plan", UpdateStatus(team_session_state, plan_data),
            Put(Put(Put(team_session_state,
                "project_plan", JsonResult[plan_data].data),
                "project_plan_updated", Isoformat(now)),
                "project_plan_agent", agent_name))

\* a faulty stamp: a revision that the submitted document carries is kept
StampedSpec_keeping_revision(spec_dict, new_revision, agent_name, now) ==
    DocPut(DocPut(DocPut(spec_dict,
        <<"revision">>, "string", DocGet(spec_dict, <<"revision">>, new_revision)),
        <<"generated_by">>, "string", <<agent_name>>),
        <<"updated_at">>, "string", Isoformat(now))

\* the submitted specification with the revision metadata added
StampedSpec(spec_dict, new_revision, agent_name, now) ==
    DocPut(DocPut(DocPut(spec_dict,
        <<"revision">>, "string", new_revision),
        <<"generated_by">>, "string", <<agent_name>>),
        <<"updated_at">>, "string", Isoformat(now))

update_api_spec(agent_name, spec_data, revision_type) ==
    LET now == clock + 1
        current_spec == Get(team_session_state, "api_spec", {})
        current_revision == DocGet(current_spec, <<"revision">>, DefaultRevision)
        new_revision == increment_version(current_revision, revision_type)
        revision_metadata ==
            create_revision_metadata(agent_name, revision_type,
                <<"API specification updated to v">> \o new_revision, now)
    IN  UpdateCall("update_api_spec", UpdateStatus(team_session_state, spec_data),
            Put(Put(Put(team_session_state,
                "api_spec",
                    StampedSpec(JsonResult[spec_data].data, new_revision, agent_name, now)),
                "api_spec_revision", new_revision),
                "api_spec_history",
                    Append(Get(team_session_state, "api_spec_history", <<>>),
                           revision_metadata)))

\* the submitted report with its update stamps
StampedReport(report_dict, agent_name, now) ==
    DocPut(DocPut(report_dict,
        <<"updated_at">>, "string", Isoformat(now)),
        <<"updated_by">>, "string", <<agent_name>>)

update_backend_report(agent_name, report_data) ==
    UpdateCall("update_backend_report", UpdateStatus(team_session_state, report_data),
        Put(team_session_state, "backend_report",
            StampedReport(JsonResult[report_data].data, agent_name, clock + 1)))

update_frontend_report(agent_name, report_data) ==
    UpdateCall("update_frontend_report", UpdateStatus(team_session_state, report_data),
        Put(team_session_state, "frontend_report",
            StampedReport(JsonResult[report_data].data, agent_name, clock + 1)))

\* Agent.team_session_state, the attribute of the class Agent: no code sets
\* it, so it is None (the empty set) where the class declares it
ClassSessionState == {}

\* get_api_spec_revision_history reads the session state of the class Agent
\* in place of that of its argument, and shows the last five records
get_api_spec_revision_history ==
    LET team_state ==
            IF ClassSessionState # {}
               /\ HasSessionState(CHOOSE s \in ClassSessionState : TRUE)
            THEN ClassSessionState ELSE {}
        history == IF team_state = {} THEN <<>>
                   ELSE Get(CHOOSE s \in team_state : TRUE, "api_spec_history", <<>>)
        shown == SubSeq(history, IF Len(history) > 5 THEN Len(history) - 4 ELSE 1,
                        Len(history))
    IN  /\ result' = [tool |-> "get_api_spec_revision_history",
                      status |-> IF team_state = {} THEN "no_session_state"
                                 ELSE IF history = <<>> THEN "not_available"
                                 ELSE "ok",
                      entries |-> shown]
        /\ UNCHANGED <<team_session_state, clock, rm_version, rm_change, rm_out,
                       pipeline_vars, validation_input>>

\* a session of the orchestrator: every tool, with any arguments; the session
\* is followed for MaxSessionClock writing calls
Next ==
    \/ \E target_phase \in TargetPhases, validation_required \in BOOLEAN :
           /\ transition_workflow_phase(target_phase, validation_required)
           /\ clock' <= MaxSessionClock
    \/ \E error_type \in ErrorTypes, recovery_action \in RecoveryActions :
           /\ handle_workflow_error(error_type, <<"boom">>, recovery_action)
           /\ clock' <= MaxSessionClock
    \/ \E handoff_data \in HandoffData :
           /\ coordinate_agent_handoff("PlannerAgent", "ApiSpecGenerator", handoff_data)
           /\ clock' <= MaxSessionClock
    \/ \E change_type \in ChangeTypes :
           /\ manage_api_spec_revision(change_type, <<"change">>)
           /\ clock' <= MaxSessionClock
    \/ \E agent_name \in AgentNames, plan_data \in PlanTexts :
           /\ update_project_plan(agent_name, plan_data)
           /\ clock' <= MaxSessionClock
    \/ \E agent_name \in AgentNames, spec_data \in SpecTexts, revision_type \in RevisionTypes :
           /\ update_api_spec(agent_name, spec_data, revision_type)
           /\ clock' <= MaxSessionClock
    \/ \E agent_name \in AgentNames, report_data \in ReportTexts :
           /\ update_backend_report(agent_name, report_data)
           /\ clock' <= MaxSessionClock
    \/ \E agent_name \in AgentNames, report_data \in ReportTexts :
           /\ update_frontend_report(agent_name, report_data)
           /\ clock' <= MaxSessionClock
    \/ /\ get_api_spec_revision_history
       /\ clock' <= MaxSessionClock

Spec == Init /\ [][Next]_vars

SpecEmptySession == InitEmptySession /\ [][Next]_vars

(***************************************************************************)
(* The session taken up later in its life: at instant 0 the planner has    *)
(* stored a plan, the specification generator may have stored a            *)
(* specification, and the workflow has gone up to four validated           *)
(* transitions along planning, spec_generation, backend_generation,        *)
(* frontend_generation, validation.  Every such state is the outcome of    *)
(* the calls of the tools in that order.                                   *)
(***************************************************************************)
InitPrepared ==
    LET planned == Put(Put(Put(OrchestratorState,
                       "project_plan", JsonResult[TextPlain].data),
                       "project_plan_updated", Isoformat(0)),
                       "project_plan_agent", "PlannerAgent")
        new_revision == increment_version(DefaultRevision, "minor")
        specified == Put(Put(Put(planned,
                         "api_spec", StampedSpec(JsonResult[TextWithRevision].data,
                                                 new_revision, "ApiSpecGenerator", 0)),
                         "api_spec_revision", new_revision),
                         "api_spec_history",
                             <<create_revision_metadata("ApiSpecGenerator", "minor",
                                   <<"API specification updated to v">> \o new_revision, 0)>>)
        path == <<"spec_generation", "backend_generation", "frontend_generation",
                  "validation">>
        after[k \in 0..Len(path)] ==
            [stored \in {planned, specified} |->
                IF k = 0 THEN stored
                ELSE TransitionState(after[k - 1][stored], path[k], TRUE, 0)]
    IN  /\ \E k \in 0..Len(path), stored \in {planned, specified} :
               team_session_state = after[k][stored]
        /\ clock = 0
        /\ result = Ret("none", "none")
        /\ rm_version = <<>>
        /\ rm_change = "none"
        /\ rm_out = <<>>
        /\ PipelineIdle
        /\ validation_input = {}

SpecPrepared == InitPrepared /\ [][Next]_vars

(***************************************************************************)
(* The phase machine and the error coordinator on their own: a session     *)
(* that only moves between phases and reports errors, followed for         *)
(* MaxClock writing calls.                                                 *)
(***************************************************************************)
NextRecovery ==
    \/ \E target_phase \in TargetPhases, validation_required \in BOOLEAN :
           transition_workflow_phase(target_phase, validation_required)
    \/ \E error_type \in ErrorTypes, recovery_action \in RecoveryActions :
           handle_workflow_error(error_type, <<"boom">>, recovery_action)

SpecRecovery == Init /\ [][NextRecovery]_vars

(***************************************************************************)
(* The writers of api_spec_history on their own: a session that only       *)
(* submits specifications and manages revisions, followed for MaxClock     *)
(* writing calls, so that two of them fall into the same second.           *)
(***************************************************************************)
NextRevisions ==
    \/ \E agent_name \in AgentNames, spec_data \in SpecTexts, revision_type \in RevisionTypes :
           update_api_spec(agent_name, spec_data, revision_type)
    \/ \E change_type \in ChangeTypes :
           manage_api_spec_revision(change_type, <<"change">>)

SpecRevisions == Init /\ [][NextRevisions]_vars

(***************************************************************************)
(* The revision manager on its own: a caller picks a version string and a  *)
(* change type and calls increment_version once.                           *)
(***************************************************************************)
Parts == {ToStr(n) : n \in 0..MaxPart} \cup {<<"4">>, <<"9">>, <<"1", "0">>}

\* version strings of one, two and three numeric parts, and unparseable ones
Versions ==
    Parts
    \cup {a \o <<".">> \o b : a \in Parts, b \in Parts}
    \cup {a \o <<".">> \o b \o <<".">> \o c : a \in Parts, b \in Parts, c \in Parts}
    \cup {<<"invalid">>, <<>>, <<"1", ".", "x">>, <<"1", ".", ".", "2">>}

InitRevisionManager ==
    /\ team_session_state = OrchestratorState
    /\ clock = 0
    /\ result = Ret("none", "none")
    /\ rm_version \in Versions
    /\ rm_change \in ChangeTypes
    /\ rm_out = <<>>
    /\ PipelineIdle
    /\ validation_input = {}

IncrementVersionCall ==
    /\ rm_out = <<>>
    /\ rm_out' = increment_version(rm_version, rm_change)
    /\ UNCHANGED <<team_session_state, clock, result, rm_version, rm_change, pipeline_vars,
                   validation_input>>

NextRevisionManager == IncrementVersionCall

SpecRevisionManager == InitRevisionManager /\ [][NextRevisionManager]_vars

(***************************************************************************)
(* Artifact extractor.  The response text of an agent is a sequence of     *)
(* atoms like every other text; the regular expressions of the parsers are *)
(* matched over the atoms.  The name of a tag is one word; the name of an  *)
(* attribute is a run of words, digits and underscores.                    *)
(***************************************************************************)
Max(S) == CHOOSE x \in S : \A y \in S : y <= x

\* the characters that are atoms of their own and are not matched by \w
Punctuation ==
    {"<", ">", "/", "=", Q, Backquote, ".", "*", "{", "}", "[", "]", ":", ",", "#", "-", "!"}

\* \w+ matches the atom
IsWord(atom) == atom \notin Punctuation \cup Whitespace

\* re.IGNORECASE: the lower case of the words that the patterns name
Lower(atom) ==
    IF atom \in {"codeartifact", "CodeArtifact", "CODEARTIFACT"} THEN "codeartifact"
    ELSE IF atom \in {"file", "File", "FILE"} THEN "file"
    ELSE IF atom \in {"path", "Path", "PATH"} THEN "path"
    ELSE IF atom \in {"tsx", "TSX"} THEN "tsx"
    ELSE atom

\* the least index k >= from with t[k] = atom, or 0
IndexOf(t, atom, from) ==
    LET found == {k \in from..Len(t) : t[k] = atom}
    IN  IF found = {} THEN 0 ELSE Min(found)

\* </name> stands at index k
IsClosingTag(t, k, name) ==
    /\ k + 3 <= Len(t)
    /\ t[k] = "<" /\ t[k + 1] = "/" /\ Lower(t[k + 2]) = name /\ t[k + 3] = ">"

\* the least index k >= from where </name> stands, or 0
FirstClosingTag(t, from, name) ==
    LET found == {k \in from..Len(t) : IsClosingTag(t, k, name)}
    IN  IF found = {} THEN 0 ELSE Min(found)

\* the match of <codeartifact\s+([^>]+)>([\s\S]*?)</codeartifact> that starts
\* at index i, as a set: [attributes_str, content, next], or nothing.  \s+
\* takes the whole run of whitespace unless [^>]+ would be left empty.
ArtifactMatchAt(t, i) ==
    IF ~(i + 2 <= Len(t) /\ t[i] = "<" /\ Lower(t[i + 1]) = "codeartifact"
         /\ t[i + 2] \in Whitespace)
    THEN {}
    ELSE LET w == SkipWs(t, i + 3)
             gt == IndexOf(t, ">", w)
             attr_from == IF gt > w THEN w ELSE w - 1
             closing == IF gt = 0 THEN 0 ELSE FirstClosingTag(t, gt + 1, "codeartifact")
         IN  IF gt = 0 \/ attr_from = i + 2 \/ closing = 0
             THEN {}
             ELSE {[attributes_str |-> SubSeq(t, attr_from, gt - 1),
                    content |-> SubSeq(t, gt + 1, closing - 1),
                    next |-> closing + 4]}

\* re.finditer of the artifact pattern from index i on
RECURSIVE ArtifactMatches(_, _)
ArtifactMatches(t, i) ==
    IF i > Len(t) THEN <<>>
    ELSE IF ArtifactMatchAt(t, i) = {} THEN ArtifactMatches(t, i + 1)
    ELSE LET match == CHOOSE m \in ArtifactMatchAt(t, i) : TRUE
         IN  <<match>> \o ArtifactMatches(t, match.next)

\* the end of the run of \w atoms that starts at index i
RECURSIVE WordEnd(_, _)
WordEnd(a, i) == IF i <= Len(a) /\ IsWord(a[i]) THEN WordEnd(a, i + 1) ELSE i

\* the match of (\w+)="([^"]+)" that starts at index i: [name, value, next]
AttributeMatchAt(a, i) ==
    LET e == WordEnd(a, i)
        q == IndexOf(a, Q, e + 2)
    IN  IF e > i /\ e + 2 <= Len(a) /\ a[e] = "=" /\ a[e + 1] = Q /\ a[e + 2] # Q /\ q # 0
        THEN {[name |-> SubSeq(a, i, e - 1), value |-> SubSeq(a, e + 2, q - 1), next |-> q + 1]}
        ELSE {}

\* re.finditer of the attribute pattern from index i on
RECURSIVE AttributeMatches(_, _)
AttributeMatches(a, i) ==
    IF i > Len(a) THEN <<>>
    ELSE IF AttributeMatchAt(a, i) = {} THEN AttributeMatches(a, i + 1)
    ELSE LET match == CHOOSE m \in AttributeMatchAt(a, i) : TRUE
         IN  <<match>> \o AttributeMatches(a, match.next)

\* attributes.get(name, default) of the dict that the matches fill in order
AttributeGet(matches, name, default) ==
    LET found == {k \in 1..Len(matches) : matches[k].name = name}
    IN  IF found = {} THEN default ELSE matches[Max(found)].value

\* the CodeArtifact of one match; dependencies is the empty text when the
\* attribute is absent (None), which no attribute value can be
CodeArtifact(attributes_str, content) ==
    LET attributes == AttributeMatches(attributes_str, 1)
    IN  [type |-> AttributeGet(attributes, <<"type">>, <<"text">>),
         filename |-> AttributeGet(attributes, <<"filename">>, <<"unknown">>),
         purpose |-> AttributeGet(attributes, <<"purpose">>, <<"unknown">>),
         dependencies |-> AttributeGet(attributes, <<"dependencies">>, <<>>),
         complexity |-> AttributeGet(attributes, <<"complexity">>, <<"simple">>),
         content |-> content]

extract_code_artifacts(text) ==
    LET matches == ArtifactMatches(text, 1)
    IN  [n \in 1..Len(matches) |->
            CodeArtifact(matches[n].attributes_str, Strip(matches[n].content))]

(***************************************************************************)
(* Frontend variant of the extractor: the same tags, the content cleaned  *)
(* of markdown fences, and two fallbacks when no tag is found.             *)
(***************************************************************************)
\* k backquotes stand at index s
TicksAt(t, s, k) == s + k - 1 <= Len(t) /\ \A j \in s..(s + k - 1) : t[j] = Backquote

\* ^ under re.MULTILINE
IsLineStart(t, i) == i = 1 \/ t[i - 1] = "\n"

\* the end (exclusive) of the match of ^`{3,ticks}\w*\s*\n? at index i, or 0
OpenerEnd(t, i, ticks) ==
    IF IsLineStart(t, i) /\ TicksAt(t, i, 3)
    THEN SkipWs(t, WordEnd(t, IF ticks = 4 /\ TicksAt(t, i, 4) THEN i + 4 ELSE i + 3))
    ELSE 0

\* re.sub of the opening marker pattern by the empty string
RECURSIVE RemoveOpeners(_, _, _)
RemoveOpeners(t, i, ticks) ==
    IF i > Len(t) THEN <<>>
    ELSE IF OpenerEnd(t, i, ticks) # 0 THEN RemoveOpeners(t, OpenerEnd(t, i, ticks), ticks)
    ELSE <<t[i]>> \o RemoveOpeners(t, i + 1, ticks)

\* the end (exclusive) of \s*$ under re.MULTILINE from index p on, or 0: the
\* whitespace up to the end of the text, or else up to its last line end
DollarEnd(t, p) ==
    LET e == SkipWs(t, p)
        line_ends == {j \in p..(e - 1) : t[j] = "\n"}
    IN  IF e > Len(t) THEN e
        ELSE IF line_ends = {} THEN 0 ELSE Max(line_ends)

\* the end (exclusive) of the match of \n?`{3,ticks}\s*$ at index i, or 0
CloserEnd(t, i, ticks) ==
    LET s == IF t[i] = "\n" THEN i + 1 ELSE i
    IN  IF ticks = 4 /\ TicksAt(t, s, 4) /\ DollarEnd(t, s + 4) # 0 THEN DollarEnd(t, s + 4)
        ELSE IF TicksAt(t, s, 3) THEN DollarEnd(t, s + 3)
        ELSE 0

\* re.sub of the closing marker pattern by the empty string
RECURSIVE RemoveClosers(_, _, _)
RemoveClosers(t, i, ticks) ==
    IF i > Len(t) THEN <<>>
    ELSE IF CloserEnd(t, i, ticks) # 0 THEN RemoveClosers(t, CloserEnd(t, i, ticks), ticks)
    ELSE <<t[i]>> \o RemoveClosers(t, i + 1, ticks)

clean_markdown_content(content) ==
    LET opened4 == RemoveOpeners(content, 1, 4)
        opened3 == RemoveOpeners(opened4, 1, 3)
        closed4 == RemoveClosers(opened3, 1, 4)
        closed3 == RemoveClosers(closed4, 1, 3)
    IN  Strip(closed3)

\* str.endswith("." + extension) for a filename whose last word is the extension
EndsWith(filename, extension) ==
    /\ Len(filename) >= 2
    /\ filename[Len(filename) - 1] = "." /\ filename[Len(filename)] = extension

get_artifact_type(filename) ==
    IF EndsWith(filename, "tsx") \/ EndsWith(filename, "jsx") THEN <<"react">>
    ELSE IF EndsWith(filename, "ts") THEN <<"typescript">>
    ELSE IF EndsWith(filename, "js") THEN <<"javascript">>
    ELSE IF EndsWith(filename, "css") THEN <<"css">>
    ELSE IF EndsWith(filename, "json") THEN <<"json">>
    ELSE IF EndsWith(filename, "html") THEN <<"html">>
    ELSE <<"react">>

assess_code_complexity(content) ==
    LET lines == Cardinality({j \in 1..Len(content) : content[j] = "\n"})
    IN  IF lines < 50 THEN <<"simple">>
        ELSE IF lines < 200 THEN <<"moderate">>
        ELSE <<"complex">>

\* the FrontendCodeArtifact of one match of the artifact pattern
FrontendCodeArtifact(attributes_str, content) ==
    LET attributes == AttributeMatches(attributes_str, 1)
    IN  [type |-> AttributeGet(attributes, <<"type">>, <<"react">>),
         filename |-> AttributeGet(attributes, <<"filename">>, <<"unknown">>),
         purpose |-> AttributeGet(attributes, <<"purpose">>, <<"unknown">>),
         dependencies |-> AttributeGet(attributes, <<"dependencies">>, <<>>),
         complexity |-> AttributeGet(attributes, <<"complexity">>, <<"simple">>),
         framework |-> AttributeGet(attributes, <<"framework">>, <<"react">>),
         content |-> content]

\* the FrontendCodeArtifact that the fallbacks build for a filename
FallbackArtifact(filename, content) ==
    [type |-> get_artifact_type(filename),
     filename |-> filename,
     purpose |-> <<"Generated", " ">> \o get_artifact_type(filename) \o <<" ", "file">>,
     dependencies |-> <<>>,
     complexity |-> assess_code_complexity(content),
     framework |-> <<"react">>,
     content |-> content]

\* the match of <file\s+path="([^"]+)"[^>]*>([\s\S]*?)</file> that starts at
\* index i, as a set: [file_path, content, next], or nothing
FileMatchAt(t, i) ==
    IF ~(i + 2 <= Len(t) /\ t[i] = "<" /\ Lower(t[i + 1]) = "file" /\ t[i + 2] \in Whitespace)
    THEN {}
    ELSE LET w == SkipWs(t, i + 3)
             q == IndexOf(t, Q, w + 3)
             gt == IF q = 0 THEN 0 ELSE IndexOf(t, ">", q + 1)
             closing == IF gt = 0 THEN 0 ELSE FirstClosingTag(t, gt + 1, "file")
         IN  IF /\ w + 3 <= Len(t)
                /\ Lower(t[w]) = "path" /\ t[w + 1] = "=" /\ t[w + 2] = Q /\ t[w + 3] # Q
                /\ closing # 0
             THEN {[file_path |-> SubSeq(t, w + 3, q - 1),
                    content |-> SubSeq(t, gt + 1, closing - 1),
                    next |-> closing + 4]}
             ELSE {}

\* re.finditer of the file pattern from index i on
RECURSIVE FileMatches(_, _)
FileMatches(t, i) ==
    IF i > Len(t) THEN <<>>
    ELSE IF FileMatchAt(t, i) = {} THEN FileMatches(t, i + 1)
    ELSE LET match == CHOOSE m \in FileMatchAt(t, i) : TRUE
         IN  <<match>> \o FileMatches(t, match.next)

\* the languages that may follow the opening fence of a code block
BlockLanguages == {"typescript", "tsx", "jsx", "javascript", "css", "json"}

\* the extensions that a filename comment may end with
BlockExtensions == {"ts", "tsx", "js", "jsx", "css", "json"}

\* the filename comment // name.ext at index p: [filename, next], or nothing
LineCommentAt(t, p) ==
    IF ~(p + 1 <= Len(t) /\ t[p] = "/" /\ t[p + 1] = "/") THEN {}
    ELSE LET from == SkipWs(t, p + 2)
             line_end == IF IndexOf(t, "\n", from) = 0 THEN Len(t) + 1
                         ELSE IndexOf(t, "\n", from)
             dots == {d \in (from + 1)..(line_end - 2) :
                         t[d] = "." /\ Lower(t[d + 1]) \in BlockExtensions}
         IN  IF dots = {} THEN {}
             ELSE {[filename |-> SubSeq(t, from, Max(dots) + 1), next |-> Max(dots) + 2]}

\* the filename comment /* name.ext */ at index p: [filename, next], or nothing
StarCommentAt(t, p) ==
    IF ~(p + 1 <= Len(t) /\ t[p] = "/" /\ t[p + 1] = "*") THEN {}
    ELSE LET from == SkipWs(t, p + 2)
             star == IndexOf(t, "*", from)
             last == Max({from} \cup {j \in from..(star - 1) : t[j] \notin Whitespace})
         IN  IF /\ star # 0 /\ star + 1 <= Len(t) /\ t[star + 1] = "/"
                /\ last - 1 > from
                /\ t[last - 1] = "." /\ Lower(t[last]) \in BlockExtensions
             THEN {[filename |-> SubSeq(t, from, last), next |-> star + 2]}
             ELSE {}

\* the match of the code block pattern that starts at index i, as a set:
\* [filename (a set, empty without a filename comment), content, next]
BlockMatchAt(t, i) ==
    IF ~TicksAt(t, i, 3) THEN {}
    ELSE LET p == SkipWs(t, IF i + 3 <= Len(t) /\ Lower(t[i + 3]) \in BlockLanguages
                             THEN i + 4 ELSE i + 3)
             comment == IF LineCommentAt(t, p) # {} THEN LineCommentAt(t, p)
                        ELSE StarCommentAt(t, p)
             body == IF comment = {} THEN p
                     ELSE SkipWs(t, (CHOOSE c \in comment : TRUE).next)
             fences == {c \in body..Len(t) : TicksAt(t, c, 3)}
         IN  IF fences = {} THEN {}
             ELSE {[filename |-> {c.filename : c \in comment},
                    content |-> SubSeq(t, body, Min(fences) - 1),
                    next |-> Min(fences) + 3]}

\* re.finditer of the code block pattern from index i on
RECURSIVE BlockMatches(_, _)
BlockMatches(t, i) ==
    IF i > Len(t) THEN <<>>
    ELSE IF BlockMatchAt(t, i) = {} THEN BlockMatches(t, i + 1)
    ELSE LET match == CHOOSE m \in BlockMatchAt(t, i) : TRUE
         IN  <<match>> \o BlockMatches(t, match.next)

\* the artifacts of the file tags that carry a content
RECURSIVE FileArtifacts(_)
FileArtifacts(matches) ==
    IF matches = <<>> THEN <<>>
    ELSE LET content == Strip(Head(matches).content)
         IN  (IF content # <<>>
              THEN <<FallbackArtifact(Head(matches).file_path, clean_markdown_content(content))>>
              ELSE <<>>) \o FileArtifacts(Tail(matches))

\* the artifacts of the code blocks that carry a content; file_index numbers
\* the blocks without a name
RECURSIVE BlockArtifacts(_, _)
BlockArtifacts(matches, file_index) ==
    IF matches = <<>> THEN <<>>
    ELSE LET content == Strip(Head(matches).content)
             filename == IF Head(matches).filename = {}
                         THEN <<"Component">> \o ToStr(file_index) \o <<".", "tsx">>
                         ELSE CHOOSE f \in Head(matches).filename : TRUE
         IN  IF content # <<>>
             THEN <<FallbackArtifact(filename, clean_markdown_content(content))>>
                  \o BlockArtifacts(Tail(matches), file_index + 1)
             ELSE BlockArtifacts(Tail(matches), file_index)

extract_frontend_code_artifacts(text) ==
    LET matches == ArtifactMatches(text, 1)
        tagged == [n \in 1..Len(matches) |->
                      FrontendCodeArtifact(matches[n].attributes_str,
                                           clean_markdown_content(Strip(matches[n].content)))]
        from_files == FileArtifacts(FileMatches(text, 1))
    IN  IF Len(tagged) # 0 THEN tagged
        ELSE IF Len(from_files) # 0 THEN from_files
        ELSE BlockArtifacts(BlockMatches(text, 1), 1)

(***************************************************************************)
(* Response texts: at most MaxPieces pieces, each one of the forms that an *)
(* agent's answer is made of.                                              *)
(***************************************************************************)
\* the pieces: a segment in lower case, as the agents are told to write it;
\* a segment in mixed case, the attributes in another order, the file in a
\* subdirectory, the content padded with whitespace; a segment whose content
\* is wrapped in one fenced code block; a segment with an empty body; prose;
\* an opening tag that is never closed; a tag pair without attributes; the
\* simpler tag of the frontend fallback; a fenced code block with a filename
\* comment
Pieces ==
    LET Attribute(name, value) == <<" ", name, "=", Q>> \o value \o <<Q>>
        Fence == <<Backquote, Backquote, Backquote>>
        SegA ==
            <<"<", "codeartifact">> \o Attribute("type", <<"text">>)
            \o Attribute("filename", <<"a", ".", "txt">>) \o Attribute("purpose", <<"x">>)
            \o <<">", "hello", "<", "/", "codeartifact", ">">>
        SegB ==
            <<"<", "CodeArtifact">> \o Attribute("purpose", <<"y">>)
            \o Attribute("filename", <<"src", "/", "b", ".", "txt">>)
            \o Attribute("type", <<"json">>)
            \o <<">", "\n", " ", "world", " ", "\n", "<", "/", "CODEARTIFACT", ">">>
        SegFenced ==
            <<"<", "codeartifact">> \o Attribute("type", <<"react">>)
            \o Attribute("filename", <<"App", ".", "tsx">>) \o Attribute("purpose", <<"ui">>)
            \o <<">">> \o Fence \o <<"tsx", "\n", "code", "\n">> \o Fence
            \o <<"<", "/", "codeartifact", ">">>
        SegEmpty ==
            <<"<", "codeartifact">> \o Attribute("type", <<"text">>)
            \o Attribute("filename", <<"e", ".", "txt">>) \o Attribute("purpose", <<"none">>)
            \o <<">", "<", "/", "codeartifact", ">">>
        Prose == <<"Here", " ", "is", " ", "the", " ", "code", ":", "\n">>
        Unclosed ==
            <<"<", "codeartifact">> \o Attribute("type", <<"text">>)
            \o Attribute("filename", <<"u", ".", "txt">>) \o Attribute("purpose", <<"z">>)
            \o <<">", "lost", " ">>
        NoAttrs == <<"<", "codeartifact", ">", "junk", "<", "/", "codeartifact", ">">>
        FileTag ==
            <<"<", "file">> \o Attribute("path", <<"f", ".", "css">>)
            \o <<">", "body", "<", "/", "file", ">">>
        Block ==
            Fence
            \o <<"tsx", "\n", "/", "/", " ", "Card", ".", "tsx", "\n", "card", "\n">>
            \o Fence \o <<"\n">>
    IN  {SegA, SegB, SegFenced, SegEmpty, Prose, Unclosed, NoAttrs, FileTag, Block}

MaxPieces == 3

RECURSIVE Join(_)
Join(pieces) == IF pieces = <<>> THEN <<>> ELSE Head(pieces) \o Join(Tail(pieces))

ResponseTexts == {Join(pieces) : pieces \in UNION {[1..n -> Pieces] : n \in 0..MaxPieces}}

(***************************************************************************)
(* Artifact materializer.  A path is a text; the disk is the files (path   *)
(* to content) and the directories.  Opening a path for writing fails when *)
(* the file system refuses it (unwritable) or when it is a directory;      *)
(* creating a directory fails when it or one of its parents is a file.     *)
(***************************************************************************)
\* os.path.join(base_path, filename)
PathJoin(base_path, filename) ==
    IF filename # <<>> /\ filename[1] = "/" THEN filename
    ELSE base_path \o <<"/">> \o filename

\* os.path.dirname(path)
Dirname(path) ==
    LET slashes == {k \in 1..Len(path) : path[k] = "/"}
    IN  IF slashes = {} THEN <<>>
        ELSE IF Max(slashes) = 1 THEN <<"/">>
        ELSE SubSeq(path, 1, Max(slashes) - 1)

\* the directory and the directories above it
Ancestors(dir) ==
    {dir} \cup {SubSeq(dir, 1, k - 1) : k \in {j \in 2..Len(dir) : dir[j] = "/"}}

\* os.makedirs without exist_ok: a directory that exists is an error
MakeDirs_refusing_existing(disk, dir) ==
    [ok |-> Ancestors(dir) \cap DOMAIN disk.files = {} /\ dir \notin disk.dirs,
     dirs |-> disk.dirs \cup {a \in Ancestors(dir) : Ancestors(a) \cap DOMAIN disk.files = {}}]

\* os.makedirs(dir, exist_ok=True) on a disk: [ok, dirs]; the directories
\* above the first one that is a file are still made
MakeDirs(disk, dir) ==
    [ok |-> Ancestors(dir) \cap DOMAIN disk.files = {},
     dirs |-> disk.dirs \cup {a \in Ancestors(dir) : Ancestors(a) \cap DOMAIN disk.files = {}}]

\* the body of the loop for one artifact, content being what is written: the
\* disk and the list of created files after it.  An exception leaves the
\* list as it is and the loop goes on.
SaveOne(disk, artifact, base_path, content) ==
    LET file_path == PathJoin(base_path, artifact.filename)
        file_dir == Dirname(file_path)
        made == IF file_dir # <<>> /\ file_dir # base_path
                THEN MakeDirs(disk, file_dir)
                ELSE [ok |-> TRUE, dirs |-> disk.dirs]
    IN  IF made.ok /\ file_path \notin unwritable /\ file_path \notin made.dirs
        THEN [disk EXCEPT !.files = Put(disk.files, file_path, content),
                          !.dirs = made.dirs,
                          !.created_files = Append(disk.created_files, file_path)]
        ELSE [disk EXCEPT !.dirs = made.dirs]

\* the loop over the artifacts from the n-th on; cleaning tells whether the
\* content is cleaned of markdown fences before it is written
RECURSIVE SaveLoop(_, _, _, _, _)
SaveLoop(disk, batch, n, base_path, cleaning) ==
    IF n > Len(batch) THEN disk
    ELSE SaveLoop(SaveOne(disk, batch[n], base_path,
                          IF cleaning THEN clean_markdown_content(batch[n].content)
                          ELSE batch[n].content),
                  batch, n + 1, base_path, cleaning)

\* the disk when the call begins, the base directory made, nothing created;
\* ok tells whether the base directory could be made: that call stands
\* outside the try, so its exception leaves the function
DiskWithBase(base_path) ==
    [ok |-> MakeDirs([files |-> files, dirs |-> dirs], base_path).ok,
     files |-> files, dirs |-> MakeDirs([files |-> files, dirs |-> dirs], base_path).dirs,
     created_files |-> <<>>]

\* a materializer that gives up at the first artifact it cannot write
save_artifacts_to_files_aborting(batch, base_path) ==
    LET failing == {n \in 1..Len(batch) : PathJoin(base_path, batch[n].filename) \in unwritable}
        kept == IF failing = {} THEN batch ELSE SubSeq(batch, 1, Min(failing) - 1)
    IN  SaveLoop(DiskWithBase(base_path), kept, 1, base_path, FALSE)

\* the disk and the returned list after the call
save_artifacts_to_files(batch, base_path) ==
    IF DiskWithBase(base_path).ok
    THEN SaveLoop(DiskWithBase(base_path), batch, 1, base_path, FALSE)
    ELSE DiskWithBase(base_path)

save_frontend_artifacts_to_files(batch, base_path) ==
    IF DiskWithBase(base_path).ok
    THEN SaveLoop(DiskWithBase(base_path), batch, 1, base_path, TRUE)
    ELSE DiskWithBase(base_path)

(***************************************************************************)
(* The artifact pipeline: a response is received, its artifacts are        *)
(* extracted and saved, step by step or by one of the process functions.   *)
(***************************************************************************)
BasePaths == {<<"generated">>}

\* the paths that the file system may refuse
UnwritablePaths ==
    {<<"generated", "/", "a", ".", "txt">>, <<"generated", "/", "src", "/", "b", ".", "txt">>}

orchestrator_vars == <<team_session_state, clock, result, rm_version, rm_change, rm_out>>

\* the disk and the returned list become those of a save that ends in the
\* stage done, or in "raised" when an exception left the function
Saved(disk, done) ==
    /\ files' = disk.files
    /\ dirs' = disk.dirs
    /\ created_files' = disk.created_files
    /\ stage' = IF disk.ok THEN done ELSE "raised"

ExtractBackendCall ==
    /\ stage = "received"
    /\ artifacts' = extract_code_artifacts(response_text)
    /\ stage' = "extracted_backend"
    /\ UNCHANGED <<orchestrator_vars, validation_input, response_text, files, dirs, created_files, unwritable>>

ExtractFrontendCall ==
    /\ stage = "received"
    /\ artifacts' = extract_frontend_code_artifacts(response_text)
    /\ stage' = "extracted_frontend"
    /\ UNCHANGED <<orchestrator_vars, validation_input, response_text, files, dirs, created_files, unwritable>>

SaveBackendCall(base_path) ==
    /\ stage = "extracted_backend"
    /\ Saved(save_artifacts_to_files(artifacts, base_path), "saved_backend")
    /\ UNCHANGED <<orchestrator_vars, validation_input, response_text, artifacts, unwritable>>

\* the materializer is called a second time with the same artifact list
ResaveBackendCall(base_path) ==
    /\ stage = "saved_backend"
    /\ Saved(save_artifacts_to_files(artifacts, base_path), "resaved_backend")
    /\ UNCHANGED <<orchestrator_vars, validation_input, response_text, artifacts, unwritable>>

SaveFrontendCall(base_path) ==
    /\ stage = "extracted_frontend"
    /\ Saved(save_frontend_artifacts_to_files(artifacts, base_path), "saved_frontend")
    /\ UNCHANGED <<orchestrator_vars, validation_input, response_text, artifacts, unwritable>>

\* without artifacts the function returns before the base directory is made
process_backend_response(save_path) ==
    /\ stage = "received"
    /\ artifacts' = extract_code_artifacts(response_text)
    /\ IF artifacts' = <<>>
       THEN created_files' = <<>> /\ stage' = "saved_backend" /\ UNCHANGED <<files, dirs>>
       ELSE Saved(save_artifacts_to_files(artifacts', save_path), "saved_backend")
    /\ UNCHANGED <<orchestrator_vars, validation_input, response_text, unwritable>>

process_frontend_response(save_path) ==
    /\ stage = "received"
    /\ artifacts' = extract_frontend_code_artifacts(response_text)
    /\ IF artifacts' = <<>>
       THEN created_files' = <<>> /\ stage' = "saved_frontend" /\ UNCHANGED <<files, dirs>>
       ELSE Saved(save_frontend_artifacts_to_files(artifacts', save_path), "saved_frontend")
    /\ UNCHANGED <<orchestrator_vars, validation_input, response_text, unwritable>>

\* the tool of the backend agent: the artifacts are extracted and saved, and
\* the summary names the first len(created_files) artifacts
save_generated_files(response, base_path) ==
    /\ stage = "received"
    /\ artifacts' = extract_code_artifacts(response)
    /\ IF artifacts' = <<>>
       THEN /\ created_files' = <<>> /\ stage' = "summarised_backend"
            /\ UNCHANGED <<files, dirs>>
       ELSE Saved(save_artifacts_to_files(artifacts', base_path), "summarised_backend")
    /\ result' = [tool |-> "save_generated_files",
                  status |-> IF artifacts' = <<>> THEN "no_artifacts"
                             ELSE IF stage' = "raised" THEN "raised" ELSE "saved",
                  summary |-> [i \in 1..Min({Len(artifacts'), Len(created_files')}) |->
                                  [filename |-> artifacts'[i].filename,
                                   purpose |-> artifacts'[i].purpose]]]
    /\ UNCHANGED <<team_session_state, clock, rm_version, rm_change, rm_out, validation_input,
                   response_text, unwritable>>

\* the tool of the frontend agent
save_generated_frontend_files(response, base_path) ==
    /\ stage = "received"
    /\ artifacts' = extract_frontend_code_artifacts(response)
    /\ IF artifacts' = <<>>
       THEN /\ created_files' = <<>> /\ stage' = "summarised_frontend"
            /\ UNCHANGED <<files, dirs>>
       ELSE Saved(save_frontend_artifacts_to_files(artifacts', base_path),
                  "summarised_frontend")
    /\ result' = [tool |-> "save_generated_frontend_files",
                  status |-> IF artifacts' = <<>> THEN "no_artifacts"
                             ELSE IF stage' = "raised" THEN "raised" ELSE "saved",
                  summary |-> [i \in 1..Min({Len(artifacts'), Len(created_files')}) |->
                                  [filename |-> artifacts'[i].filename,
                                   purpose |-> artifacts'[i].purpose,
                                   framework |-> artifacts'[i].framework,
                                   type |-> artifacts'[i].type]]]
    /\ UNCHANGED <<team_session_state, clock, rm_version, rm_change, rm_out, validation_input,
                   response_text, unwritable>>

\* a response has been received; the disk is empty
InitArtifacts ==
    /\ team_session_state = OrchestratorState
    /\ clock = 0
    /\ result = Ret("none", "none")
    /\ rm_version = <<>>
    /\ rm_change = "none"
    /\ rm_out = <<>>
    /\ response_text \in ResponseTexts
    /\ artifacts = <<>>
    /\ files = [path \in {} |-> <<>>]
    /\ dirs = {}
    /\ created_files = <<>>
    /\ unwritable \in SUBSET UnwritablePaths
    /\ stage = "received"
    /\ validation_input = {}

NextArtifacts ==
    \/ ExtractBackendCall
    \/ ExtractFrontendCall
    \/ \E base_path \in BasePaths : SaveBackendCall(base_path)
    \/ \E base_path \in BasePaths : SaveFrontendCall(base_path)
    \/ \E base_path \in BasePaths : ResaveBackendCall(base_path)
    \/ \E save_path \in BasePaths : process_backend_response(save_path)
    \/ \E save_path \in BasePaths : process_frontend_response(save_path)
    \/ \E base_path \in BasePaths : save_generated_files(response_text, base_path)
    \/ \E base_path \in BasePaths : save_generated_frontend_files(response_text, base_path)

SpecArtifacts == InitArtifacts /\ [][NextArtifacts]_vars

(***************************************************************************)
(* The file writing tool of the backend and frontend agents.  The clock    *)
(* counts the calls; TicksPerSecond calls fall into one second, which is   *)
(* what the suffix of a backup path shows.                                 *)
(***************************************************************************)
MaxWrites == 4

TicksPerSecond == 2

WriteModes == {"create", "update", "append"}

WritePaths ==
    {<<"a", ".", "txt">>, <<"generated", "/", "a", ".", "txt">>,
     <<"src", "/", "b", ".", "txt">>, <<"src">>}

WriteContents == {<<"one">>, <<"two">>}

\* the path below generated/ that the tool writes
GeneratedPath(file_path) ==
    IF Len(file_path) >= 2 /\ SubSeq(file_path, 1, 2) = <<"generated", "/">>
    THEN file_path
    ELSE <<"generated", "/">> \o file_path

\* file_path.backup.<time of the call, to the second>
BackupPath(file_path, now) ==
    file_path \o <<".", "backup", ".">> \o ToStr(now \div TicksPerSecond)

\* a tool that backs up in every mode
write_project_file_backing_up_always(file_path, content, mode) ==
    LET target == GeneratedPath(file_path)
        made == MakeDirs([files |-> files, dirs |-> dirs], Dirname(target))
        copied == IF target \in DOMAIN files
                  THEN Put(files, BackupPath(target, clock), files[target])
                  ELSE files
    IN  /\ clock < MaxWrites
        /\ clock' = clock + 1
        /\ dirs' = made.dirs
        /\ IF ~made.ok \/ target \in made.dirs
           THEN files' = files /\ result' = Ret("write_project_file", "error")
           ELSE /\ files' = Put(copied, target,
                                IF mode = "append" /\ target \in DOMAIN files
                                THEN files[target] \o content ELSE content)
                /\ result' = Ret("write_project_file", "success")
        /\ UNCHANGED <<team_session_state, rm_version, rm_change, rm_out, validation_input,
                       response_text, artifacts, created_files, unwritable, stage>>

\* write_project_file.  A directory at the target
\* makes the copy or the open raise, a file above it the makedirs; the
\* exception is caught and reported.
write_project_file(file_path, content, mode) ==
    LET target == GeneratedPath(file_path)
        made == MakeDirs([files |-> files, dirs |-> dirs], Dirname(target))
        copied == IF mode = "update" /\ target \in DOMAIN files
                  THEN Put(files, BackupPath(target, clock), files[target])
                  ELSE files
    IN  /\ clock < MaxWrites
        /\ clock' = clock + 1
        /\ dirs' = made.dirs
        /\ IF ~made.ok \/ target \in made.dirs
           THEN files' = files /\ result' = Ret("write_project_file", "error")
           ELSE /\ files' = Put(copied, target,
                                IF mode = "append" /\ target \in DOMAIN files
                                THEN files[target] \o content ELSE content)
                /\ result' = Ret("write_project_file", "success")
        /\ UNCHANGED <<team_session_state, rm_version, rm_change, rm_out, validation_input,
                       response_text, artifacts, created_files, unwritable, stage>>

NextProjectFiles ==
    \E file_path \in WritePaths, content \in WriteContents, mode \in WriteModes :
        write_project_file(file_path, content, mode)

SpecProjectFiles == Init /\ [][NextProjectFiles]_vars

(***************************************************************************)
(* The schema validator.  The data is an object with the keys name and     *)
(* age, each missing, a string or a number; the schema gives the type of   *)
(* each property and the required keys, and is no schema when its own type *)
(* is none that JSON Schema knows.                                         *)
(***************************************************************************)
\* the violations that the validator of the library finds: a required key
\* that is missing, a property of another type than the schema gives
Violations(data, schema) ==
    {<<"required", k>> : k \in {r \in schema.required : data[r] = "missing"}}
    \cup {<<"type", k>> :
             k \in {q \in DOMAIN schema.properties :
                       data[q] \notin {"missing", schema.properties[q]}}}

\* jsonschema.validate raises one exception, for the schema or for one of
\* the violations, and the errors list holds the text of that exception
validate_against_schema ==
    /\ validation_input # {}
    /\ LET input == CHOOSE i \in validation_input : TRUE
           violations == Violations(input.data, input.schema)
       IN  \E errors \in {<<>>, <<<<"schema", "type">>>>} \cup {<<v>> : v \in violations} :
               /\ errors = <<<<"schema", "type">>>> <=> input.schema.type # "object"
               /\ errors = <<>> <=> (input.schema.type = "object" /\ violations = {})
               /\ result' = [tool |-> "validate_against_schema",
                             status |-> IF errors = <<>> THEN "valid" ELSE "invalid",
                             errors |-> errors]
    /\ UNCHANGED <<team_session_state, clock, rm_version, rm_change, rm_out, pipeline_vars,
                   validation_input>>

\* the validator is about to be called with some data and some schema
InitSchemaValidator ==
    /\ team_session_state = OrchestratorState
    /\ clock = 0
    /\ result = Ret("none", "none")
    /\ rm_version = <<>>
    /\ rm_change = "none"
    /\ rm_out = <<>>
    /\ PipelineIdle
    /\ \E data \in [{"name", "age"} -> {"missing", "string", "number"}],
          type \in {"object", "objekt"}, required \in SUBSET {"name", "age"} :
           validation_input =
               {[data |-> data,
                 schema |-> [type |-> type,
                             properties |-> [name |-> "string", age |-> "number"],
                             required |-> required]]}

SpecSchemaValidator == InitSchemaValidator /\ [][validate_against_schema]_vars

(***************************************************************************)
(* The complexity heuristic on its own: a caller hands it a content of one *)
(* to MaxLines lines, the last of them with or without its newline.        *)
(* response_text holds the content and result the answer.                  *)
(***************************************************************************)
MaxLines == 201

InitComplexity ==
    /\ team_session_state = OrchestratorState
    /\ clock = 0
    /\ result = Ret("none", "none")
    /\ rm_version = <<>>
    /\ rm_change = "none"
    /\ rm_out = <<>>
    /\ validation_input = {}
    /\ artifacts = <<>>
    /\ files = [path \in {} |-> <<>>]
    /\ dirs = {}
    /\ created_files = <<>>
    /\ unwritable = {}
    /\ stage = "idle"
    /\ \E lines \in 1..MaxLines, newline \in 0..1 :
           response_text = [j \in 1..(2 * lines - 1 + newline) |->
                               IF j % 2 = 1 THEN "x" ELSE "\n"]

AssessComplexityCall ==
    /\ result' = Ret("assess_code_complexity", assess_code_complexity(response_text))
    /\ UNCHANGED <<team_session_state, clock, rm_version, rm_change, rm_out, validation_input,
                   pipeline_vars>>

SpecComplexity == InitComplexity /\ [][AssessComplexityCall]_vars

(***************************************************************************)
(* Properties.                                                             *)
(***************************************************************************)
\* the legal transition table of the design, as pairs <<from, to>>
LegalEdges ==
    {<<"planning", "spec_generation">>,
     <<"spec_generation", "backend_generation">>,
     <<"spec_generation", "frontend_generation">>,
     <<"backend_generation", "frontend_generation">>,
     <<"backend_generation", "validation">>,
     <<"frontend_generation", "validation">>,
     <<"frontend_generation", "completed">>,
     <<"validation", "completed">>,
     <<"validation", "planning">>,
     <<"completed", "planning">>,
     <<"error", "planning">>,
     <<"error", "spec_generation">>}

TransitionErrors == {"invalid_transition", "project_plan_required", "api_spec_required"}

GateErrors == {"invalid_json", "markdown"}

UpdateTools ==
    {"update_project_plan", "update_api_spec", "update_backend_report",
     "update_frontend_report"}

IsPrefix(s, t) == Len(s) <= Len(t) /\ SubSeq(t, 1, Len(s)) = s

\* C1: with validation enabled, a transition call whose target B is not a
\* successor of the current phase A in the legal transition table returns an
\* error and leaves current_phase equal to A.
C1_LegalTransitionEnforcement ==
    [][result'.tool = "transition_workflow_phase"
       => \A B \in TargetPhases :
             (<<CurrentPhase, B>> \notin LegalEdges /\ transition_workflow_phase(B, TRUE))
             => (result'.status \in TransitionErrors /\ CurrentPhase' = CurrentPhase)]_vars

\* an illegal validated transition was rejected in a phase reached by earlier transitions
C1_Witness ==
    /\ result = Ret("transition_workflow_phase", "invalid_transition")
    /\ CurrentPhase = "frontend_generation"
    /\ Len(PhaseHistory) = 2

\* C2, as stated: every transition call that targets backend_generation or
\* frontend_generation while no ApiSpec is stored fails and leaves
\* current_phase unchanged, whether or not the call asks for validation.
C2_AsStated ==
    [][\A B \in {"backend_generation", "frontend_generation"}, v \in BOOLEAN :
          (/\ result'.tool = "transition_workflow_phase"
           /\ ApiSpec = {}
           /\ transition_workflow_phase(B, v))
          => (result'.status \in TransitionErrors /\ CurrentPhase' = CurrentPhase)]_vars

\* C2, amended: a transition call with validation enabled that targets
\* backend_generation or frontend_generation while no ApiSpec is stored fails
\* and leaves current_phase unchanged, from every current phase.
C2_PreconditionEnforcement ==
    [][\A B \in {"backend_generation", "frontend_generation"} :
          (/\ result'.tool = "transition_workflow_phase"
           /\ ApiSpec = {}
           /\ transition_workflow_phase(B, TRUE))
          => (result'.status \in TransitionErrors /\ CurrentPhase' = CurrentPhase)]_vars

\* the precondition rejected a transition along a legal edge
C2_Witness ==
    /\ result = Ret("transition_workflow_phase", "api_spec_required")
    /\ CurrentPhase = "spec_generation"
    /\ ApiSpec = {}

\* the single entry that a transition from planning to spec_generation adds
C3_Gained(before, after) ==
    /\ Len(after) = Len(before) + 1
    /\ SubSeq(after, 1, Len(before)) = before
    /\ after[Len(after)].from_phase = "planning"
    /\ after[Len(after)].to_phase = "spec_generation"

\* C3, as stated: in planning with an empty plan the validated transition to
\* spec_generation is rejected, and right after any successful
\* update_project_plan call the same call succeeds and adds one entry.
C3_AsStated ==
    [][(/\ result'.tool = "transition_workflow_phase"
        /\ CurrentPhase = "planning"
        /\ transition_workflow_phase("spec_generation", TRUE))
       => /\ (ProjectPlan = {} /\ "project_plan_updated" \notin DOMAIN team_session_state)
             => result'.status \in TransitionErrors /\ UNCHANGED team_session_state
          /\ result = Ret("update_project_plan", "ok")
             => result'.status = "ok" /\ C3_Gained(PhaseHistory, PhaseHistory')]_vars

\* C3, amended: in planning with an empty plan the validated transition to
\* spec_generation is rejected; after a successful update_project_plan call
\* that stored a plan that is not empty, the same call succeeds and
\* phase_history gains exactly one entry, from planning to spec_generation.
C3_PlanThenSpecGeneration ==
    [][(/\ result'.tool = "transition_workflow_phase"
        /\ CurrentPhase = "planning"
        /\ transition_workflow_phase("spec_generation", TRUE))
       => /\ ProjectPlan = {}
             => result'.status \in TransitionErrors /\ UNCHANGED team_session_state
          /\ (result = Ret("update_project_plan", "ok") /\ ProjectPlan # {})
             => result'.status = "ok" /\ C3_Gained(PhaseHistory, PhaseHistory')]_vars

\* the transition succeeded at its second attempt, after the plan was stored
C3_Witness ==
    /\ result = Ret("transition_workflow_phase", "ok")
    /\ CurrentPhase = "spec_generation"
    /\ ProjectPlan # {}
    /\ Len(PhaseHistory) = 1
    /\ PhaseHistory[1].transition_type = "validated"

\* C4: an update_project_plan, update_api_spec, update_backend_report or
\* update_frontend_report call whose input is not valid JSON or contains
\* markdown or commentary returns an error and leaves every entry of the
\* shared state as it was.
C4_ValidateThenReplace ==
    [][result'.tool \in UpdateTools
       => \A text \in Texts, a \in AgentNames :
             (/\ ~JsonResult[text].valid \/ MarkdownResult[text]
              /\ \/ update_project_plan(a, text)
                 \/ \E rt \in RevisionTypes : update_api_spec(a, text, rt)
                 \/ update_backend_report(a, text)
                 \/ update_frontend_report(a, text))
             => (result'.status \in GateErrors /\ UNCHANGED team_session_state)]_vars

\* an update of a stored specification was rejected for its markdown
C4_Witness ==
    /\ result = Ret("update_api_spec", "markdown")
    /\ ApiSpec # {}
    /\ ProjectPlan # {}

\* the lexicographic order of versions
VersionLess(a, b) ==
    \/ a.major < b.major
    \/ a.major = b.major /\ a.minor < b.minor
    \/ a.major = b.major /\ a.minor = b.minor /\ a.patch < b.patch

\* the revision of a stored specification; "1.0.0" while none is stored
RevisionOf(api_spec) == parse_version(DocGet(api_spec, <<"revision">>, DefaultRevision))

\* C5: after every successful update_api_spec call with change type major,
\* minor or patch the stored revision is strictly greater than before in the
\* order of (major, minor, patch); a revision inside the submitted document
\* does not lower it.
C5_MonotonicRevision ==
    [][\A a \in AgentNames, text \in SpecTexts, rt \in RevisionTypes :
          (result' = Ret("update_api_spec", "ok") /\ update_api_spec(a, text, rt))
          => /\ VersionLess(RevisionOf(ApiSpec), RevisionOf(ApiSpec'))
             /\ team_session_state'["api_spec_revision"]
                    = DocGet(ApiSpec', <<"revision">>, <<>>)]_vars

\* two updates, major then minor, of a document that carries revision 0.0.1
C5_Witness ==
    /\ result = Ret("update_api_spec", "ok")
    /\ Len(ApiSpecHistory) = 2
    /\ DocGet(ApiSpec, <<"revision">>, <<>>) = <<"2", ".", "1", ".", "0">>

\* the numbers that the parts of the version strings stand for
PartNumbers == {ToInt(p) : p \in Parts}

\* the result the design gives for version (a, b, c) and a change type
C6_Expected(a, b, c, change_type) ==
    IF change_type \in {"major", "planner_regen"}
    THEN ToStr(a + 1) \o <<".", "0", ".", "0">>
    ELSE IF change_type \in {"minor", "spec_regen"}
    THEN ToStr(a) \o <<".">> \o ToStr(b + 1) \o <<".", "0">>
    ELSE ToStr(a) \o <<".">> \o ToStr(b) \o <<".">> \o ToStr(c + 1)

\* the texts of version (a, b, c): a trailing part that is 0 may be left out
C6_TextsOf(a, b, c) ==
    {ToStr(a) \o <<".">> \o ToStr(b) \o <<".">> \o ToStr(c)}
    \cup (IF c = 0 THEN {ToStr(a) \o <<".">> \o ToStr(b)} ELSE {})
    \cup (IF b = 0 /\ c = 0 THEN {ToStr(a)} ELSE {})

\* C6: increment_version returns (major+1, 0, 0) for major and planner_regen,
\* (major, minor+1, 0) for minor and spec_regen, and (major, minor, patch+1)
\* for patch and every other change type, for every parseable version.
C6_IncrementVersion ==
    \A a \in PartNumbers, b \in PartNumbers, c \in PartNumbers :
        (rm_out # <<>> /\ rm_version \in C6_TextsOf(a, b, c))
        => rm_out = C6_Expected(a, b, c, rm_change)

\* increment("1.4.9", "minor") gave "1.5.0"
C6_Witness ==
    /\ rm_version = <<"1", ".", "4", ".", "9">>
    /\ rm_change = "minor"
    /\ rm_out = <<"1", ".", "5", ".", "0">>

\* the value under a key, or nothing when the key is absent
Field(shared_state, key) == IF key \in DOMAIN shared_state THEN {shared_state[key]} ELSE {}

\* the prerequisite of phase B, as the design states it, is not met
C7_PreconditionUnmet(B) ==
    \/ B = "spec_generation" /\ ProjectPlan = {}
    \/ B \in {"backend_generation", "frontend_generation"} /\ ApiSpec = {}

\* C7: a transition rejected for an illegal edge or an unmet precondition
\* changes none of current_phase, workflow_status, last_phase_update and
\* phase_history.
C7_RejectedTransitionFrame ==
    [][result'.tool = "transition_workflow_phase"
       => \A B \in TargetPhases :
          (/\ <<CurrentPhase, B>> \notin LegalEdges \/ C7_PreconditionUnmet(B)
           /\ transition_workflow_phase(B, TRUE))
          => /\ result'.status \in TransitionErrors
             /\ \A key \in {"current_phase", "workflow_status", "last_phase_update",
                            "phase_history"} :
                    Field(team_session_state', key) = Field(team_session_state, key)]_vars

\* a transition was rejected while the workflow was marked failed
C7_Witness ==
    /\ result = Ret("transition_workflow_phase", "project_plan_required")
    /\ WorkflowStatusNow = "failed"
    /\ Len(ErrorHistory) = 1

\* C8, as stated: in every step current_phase is unchanged or moves along an
\* edge of the legal transition table.
C8_AsStated ==
    [][CurrentPhase' = CurrentPhase \/ <<CurrentPhase, CurrentPhase'>> \in LegalEdges]_vars

\* C8, amended: in every step current_phase is unchanged or moves along an
\* edge of the legal transition table, except in a transition made without
\* validation, in handle_error with recovery regenerate or rollback, and in
\* revision management, which set it without consulting the table.
C8_PhaseChanges ==
    [][\/ CurrentPhase' = CurrentPhase
       \/ <<CurrentPhase, CurrentPhase'>> \in LegalEdges
       \/ /\ result' = Ret("transition_workflow_phase", "ok")
          /\ PhaseHistory'[Len(PhaseHistory')].transition_type = "automatic"
       \/ /\ result'.tool = "handle_workflow_error"
          /\ result'.status \in {"regenerate", "rollback"}
       \/ result' = Ret("manage_api_spec_revision", "ok")]_vars

\* a validated transition moved the phase along the edge validation -> completed
C8_Witness ==
    /\ result = Ret("transition_workflow_phase", "ok")
    /\ Len(PhaseHistory) = 2
    /\ PhaseHistory[2] = [from_phase |-> "validation", to_phase |-> "completed",
                          timestamp |-> PhaseHistory[2].timestamp,
                          transition_type |-> "validated"]

\* C9: every step leaves each of phase_history, error_history,
\* handoff_history and api_spec_history unchanged or extended at its end.
C9_AppendOnlyHistories ==
    [][\A key \in {"phase_history", "error_history", "handoff_history", "api_spec_history"} :
          IsPrefix(Get(team_session_state, key, <<>>),
                   Get(team_session_state', key, <<>>))]_vars

\* a history that already held a record was extended, beside another history
C9_Witness ==
    /\ Len(HandoffHistory) = 2
    /\ HandoffHistory[1] # HandoffHistory[2]
    /\ Len(ErrorHistory) = 0

\* C10: every handle_error call appends exactly one record to error_history,
\* whose phase is the current phase before the recovery, and sets
\* workflow_status to failed.
C10_ErrorLogged ==
    [][\A et \in ErrorTypes, ra \in RecoveryActions :
          (result'.tool = "handle_workflow_error" /\ handle_workflow_error(et, <<"boom">>, ra))
          => /\ Len(ErrorHistory') = Len(ErrorHistory) + 1
             /\ IsPrefix(ErrorHistory, ErrorHistory')
             /\ ErrorHistory'[Len(ErrorHistory')].phase = CurrentPhase
             /\ ErrorHistory'[Len(ErrorHistory')].error_type = et
             /\ ErrorHistory'[Len(ErrorHistory')].recovery_action = ra
             /\ WorkflowStatusNow' = "failed"]_vars

\* an error in backend_generation was logged and recovery reset the phase to planning
C10_Witness ==
    /\ result = Ret("handle_workflow_error", "regenerate")
    /\ ErrorHistory[Len(ErrorHistory)].phase = "backend_generation"
    /\ CurrentPhase = "planning"
    /\ WorkflowStatusNow = "failed"

\* C11: handle_error with recovery action regenerate leaves current_phase at
\* spec_generation when the error type is validation_failure and at planning
\* for every other error type, from every phase and with any stored documents.
C11_RegenerateTarget ==
    [][result' = Ret("handle_workflow_error", "regenerate")
       => \A et \in ErrorTypes :
             handle_workflow_error(et, <<"boom">>, "regenerate")
             => CurrentPhase' = IF et = "validation_failure"
                                THEN "spec_generation" ELSE "planning"]_vars

\* regenerate moved the phase from completed to spec_generation, which is no
\* edge of the table, while no plan and no specification were stored
C11_Witness ==
    /\ result = Ret("handle_workflow_error", "regenerate")
    /\ ErrorHistory[Len(ErrorHistory)].phase = "completed"
    /\ ErrorHistory[Len(ErrorHistory)].error_type = "validation_failure"
    /\ CurrentPhase = "spec_generation"
    /\ ProjectPlan = {} /\ ApiSpec = {}

\* C12: handle_error with recovery action rollback, called while phase_history
\* holds two or more entries, leaves current_phase at the from_phase of the
\* entry before the last one.
C12_RollbackSecondToLast ==
    [][(result' = Ret("handle_workflow_error", "rollback") /\ Len(PhaseHistory) >= 2)
       => \A et \in ErrorTypes :
             handle_workflow_error(et, <<"boom">>, "rollback")
             => CurrentPhase' = PhaseHistory[Len(PhaseHistory) - 1].from_phase]_vars

\* after planning -> spec_generation -> backend_generation a rollback led to planning
C12_Witness ==
    /\ result = Ret("handle_workflow_error", "rollback")
    /\ Len(PhaseHistory) = 2
    /\ PhaseHistory[1].from_phase = "planning"
    /\ PhaseHistory[2].from_phase = "spec_generation"
    /\ ErrorHistory[Len(ErrorHistory)].phase = "backend_generation"
    /\ CurrentPhase = "planning"

\* C13: handle_error with recovery action rollback, called while phase_history
\* is empty or holds exactly one entry, leaves current_phase at planning, in
\* every reachable state.
C13_RollbackToPlanning ==
    [][(result' = Ret("handle_workflow_error", "rollback") /\ Len(PhaseHistory) <= 1)
       => \A et \in ErrorTypes :
             handle_workflow_error(et, <<"boom">>, "rollback")
             => CurrentPhase' = "planning"]_vars

C16_HandoffValidation ==
    [][result'.tool = "coordinate_agent_handoff"
       => \A hd \in HandoffData :
             coordinate_agent_handoff("PlannerAgent", "ApiSpecGenerator", hd)
             => /\ (\E text \in hd : ~JsonResult[text].valid)
                   => /\ result'.status = "invalid_json"
                      /\ Field(team_session_state', "last_handoff")
                             = Field(team_session_state, "last_handoff")
                      /\ Field(team_session_state', "workflow_status")
                             = Field(team_session_state, "workflow_status")
                /\ result'.status = "ok"
                   => (hd = {} \/ \A text \in hd : JsonResult[text].valid)]_vars

(***************************************************************************)
(* Artifact extractor and materializer.  A well-formed tagged segment is   *)
(* an opening tag with attributes, a content that holds no further opening *)
(* tag, and the closing tag.                                               *)
(***************************************************************************)
IsOpeningTag(t, i) == i + 1 <= Len(t) /\ t[i] = "<" /\ Lower(t[i + 1]) = "codeartifact"

WellFormedSegmentAt(t, i) ==
    {m \in ArtifactMatchAt(t, i) : ~\E j \in 1..Len(m.content) : IsOpeningTag(m.content, j)}

\* the well-formed tagged segments of a text from index i on, in order
RECURSIVE WellFormedSegments(_, _)
WellFormedSegments(t, i) ==
    IF i > Len(t) THEN <<>>
    ELSE IF WellFormedSegmentAt(t, i) = {} THEN WellFormedSegments(t, i + 1)
    ELSE LET segment == CHOOSE m \in WellFormedSegmentAt(t, i) : TRUE
         IN  <<segment>> \o WellFormedSegments(t, segment.next)

\* the filename that a segment declares
SegmentFilename(segment) ==
    AttributeGet(AttributeMatches(segment.attributes_str, 1), <<"filename">>, <<"unknown">>)

\* the frontend fallbacks have nothing to find in the text
NoFallbackForm(t) == FileMatches(t, 1) = <<>> /\ BlockMatches(t, 1) = <<>>

\* C17: after an extraction (by either variant; for the frontend variant on
\* a text that has a tagged segment or nothing for the fallbacks to find)
\* the artifacts are, one for one and in the order of the text, those of
\* its well-formed tagged segments: as many, each with the filename of its
\* segment, whatever the case of the tag name and the order of the
\* attributes; a text without tagged segment gives the empty list.
C17_ExtractWellFormed ==
    (/\ stage \in {"extracted_backend", "extracted_frontend"}
     /\ stage = "extracted_frontend" =>
            WellFormedSegments(response_text, 1) # <<>> \/ NoFallbackForm(response_text))
    => LET segments == WellFormedSegments(response_text, 1)
       IN  /\ Len(artifacts) = Len(segments)
           /\ \A n \in 1..Len(segments) : artifacts[n].filename = SegmentFilename(segments[n])

\* C18: after a backend extraction every well-formed tagged segment of the
\* text has its artifact, with the attributes and the content (without
\* surrounding whitespace) of that segment, whatever malformed or unmatched
\* tags the text holds besides.
C18_MalformedSkipped ==
    stage = "extracted_backend"
    => LET segments == WellFormedSegments(response_text, 1)
       IN  \A n \in 1..Len(segments) :
               \E k \in 1..Len(artifacts) :
                   artifacts[k] = CodeArtifact(segments[n].attributes_str,
                                               Strip(segments[n].content))

\* C19: when the text has N well-formed tagged segments with pairwise
\* distinct filenames and the file system refuses nothing, after extract
\* and save the disk holds exactly N files, the one at base_path/filename
\* of each segment with the content of that segment (without surrounding
\* whitespace, and for the frontend variant cleaned of its fence).
C19_RoundTrip ==
    LET segments == WellFormedSegments(response_text, 1)
        N == Len(segments)
    IN  (/\ stage \in {"saved_backend", "saved_frontend"}
         /\ unwritable = {}
         /\ \A m, n \in 1..N : m # n => SegmentFilename(segments[m]) # SegmentFilename(segments[n])
         /\ stage = "saved_frontend" => N # 0 \/ NoFallbackForm(response_text))
        => \E base_path \in BasePaths :
               /\ Cardinality(DOMAIN files) = N
               /\ \A n \in 1..N :
                      LET file_path == PathJoin(base_path, SegmentFilename(segments[n]))
                      IN  /\ file_path \in DOMAIN files
                          /\ files[file_path] =
                                 IF stage = "saved_backend" THEN Strip(segments[n].content)
                                 ELSE clean_markdown_content(Strip(segments[n].content))

\* the paths of a batch that the file system lets be written, in input order
WritablePaths(batch, base_path) ==
    SelectSeq([n \in 1..Len(batch) |-> PathJoin(base_path, batch[n].filename)],
              LAMBDA file_path : file_path \notin unwritable)

\* C20: after a backend save of a batch, whichever of its writes failed, the
\* returned created_files list is exactly the paths of the artifacts whose
\* write the file system let through, in input order, and those and no
\* others are on disk, each with the content of the last artifact written
\* to it: a failing write stops nothing that comes after it.
C20_FailureIsolation ==
    stage = "saved_backend"
    => \E base_path \in BasePaths :
           /\ created_files = WritablePaths(artifacts, base_path)
           /\ DOMAIN files = {created_files[k] : k \in 1..Len(created_files)}
           /\ \A n \in 1..Len(artifacts) :
                  LET file_path == PathJoin(base_path, artifacts[n].filename)
                  IN  (/\ file_path \notin unwritable
                       /\ \A m \in (n + 1)..Len(artifacts) :
                              PathJoin(base_path, artifacts[m].filename) # file_path)
                      => files[file_path] = artifacts[n].content

\* a batch of three has been saved; the write of the second failed, the
\* first and the third were written
C20_Witness ==
    /\ stage = "saved_backend"
    /\ Len(artifacts) = 3
    /\ \E base_path \in BasePaths :
           /\ PathJoin(base_path, artifacts[2].filename) \in unwritable
           /\ created_files = <<PathJoin(base_path, artifacts[1].filename),
                                PathJoin(base_path, artifacts[3].filename)>>
           /\ DOMAIN files = {created_files[1], created_files[2]}

\* C21: a second call of the backend materializer with the same artifact
\* list and base path raises no error, although the directories exist by
\* then, and returns the created files that the first call returned,
\* leaving the files on disk as they were.
C21_IdempotentSave ==
    [][(stage = "saved_backend" /\ stage' # stage)
       => /\ stage' = "resaved_backend"
          /\ created_files' = created_files
          /\ files' = files]_vars

\* the materializer has run twice on a batch with a file in a subdirectory;
\* the base directory and the subdirectory exist
C21_Witness ==
    /\ stage = "resaved_backend"
    /\ Len(created_files) >= 2
    /\ \E base_path \in BasePaths :
           /\ base_path \in dirs
           /\ \E k \in 1..Len(created_files) :
                  Dirname(created_files[k]) \in dirs \ {base_path}

(***************************************************************************)
(* File writing tool.                                                      *)
(***************************************************************************)
\* path is a backup path of target
IsBackupOf(path, target) ==
    /\ Len(path) > Len(target) + 3
    /\ SubSeq(path, 1, Len(target) + 3) = target \o <<".", "backup", ".">>

\* what a call of write_project_file has to have done to the files
C22_Written(file_path, content, mode) ==
    LET target == GeneratedPath(file_path)
        success == result'.status = "success"
    IN  /\ (mode = "update" /\ target \in DOMAIN files /\ success)
               => /\ \E backup \in DOMAIN files' :
                         IsBackupOf(backup, target) /\ files'[backup] = files[target]
                  /\ files'[target] = content
        /\ mode \in {"create", "append"}
               => /\ DOMAIN files' \subseteq DOMAIN files \cup {target}
                  /\ \A path \in DOMAIN files \ {target} : files'[path] = files[path]
        /\ (mode = "append" /\ target \in DOMAIN files /\ success)
               => files'[target] = files[target] \o content
        /\ (mode = "create" /\ success) => files'[target] = content

\* C22: a successful write in update mode to a path where a file is leaves
\* a copy of that file at a backup path with a time suffix and the new
\* content at the path; a write in create or append mode adds no file but
\* the target and changes none but the target; a successful append leaves
\* the old content followed by the new one.
C22_BackupOnlyOnUpdate ==
    [][\A file_path \in WritePaths, content \in WriteContents, mode \in WriteModes :
          write_project_file(file_path, content, mode)
          => C22_Written(file_path, content, mode)]_vars

\* an update has overwritten a file and its backup holds the old content;
\* another file has been appended to
C22_Witness ==
    /\ result = Ret("write_project_file", "success")
    /\ \E target \in DOMAIN files, backup \in DOMAIN files :
           IsBackupOf(backup, target) /\ files[backup] # files[target]
    /\ \E path \in DOMAIN files : Len(files[path]) = 2

(***************************************************************************)
(* The markdown gate and the update tools.                                 *)
(***************************************************************************)
\* the text has no code fence, heading, emphasis or comment markup
C23_NoMarkup(text) ==
    /\ ~Contains(text, <<Backquote, Backquote, Backquote>>)
    /\ ~Contains(text, <<"#">>)
    /\ ~Contains(text, <<"*">>)
    /\ ~Contains(text, <<"<", "!", "-", "-">>)
    /\ ~Contains(text, <<"/", "/">>)

\* C23: the markdown gate lets through every valid JSON object text without
\* code fence, heading, emphasis or comment markup, arrays and keys with
\* underscores included: no update_project_plan call with such a text is
\* rejected for markdown.
C23_GateAcceptsPlainJson ==
    [][result'.tool = "update_project_plan"
       => \A text \in PlanTexts, a \in AgentNames :
             (/\ JsonResult[text].valid /\ JsonResult[text].type = "object"
              /\ C23_NoMarkup(text)
              /\ update_project_plan(a, text))
             => result'.status # "markdown"]_vars

\* C24: an update_project_plan call whose text passes the JSON gate and the
\* markdown gate reports success and leaves the parsed document as the
\* stored plan, with the time of the update and the name of the agent, on
\* every session state, one without entries included.
C24_PlanReplaced ==
    [][result'.tool = "update_project_plan"
       => \A text \in PlanTexts, a \in AgentNames :
             (GateStatus(text) = "ok" /\ update_project_plan(a, text))
             => /\ result'.status = "ok"
                /\ {"project_plan", "project_plan_updated", "project_plan_agent"}
                       \subseteq DOMAIN team_session_state'
                /\ team_session_state'.project_plan = JsonResult[text].data
                /\ team_session_state'.project_plan_updated = Isoformat(clock')
                /\ team_session_state'.project_plan_agent = a]_vars

\* C25: get_api_spec_revision_history returns the records of the revision
\* history of the session in the order in which update_api_spec appended
\* them, all of them, and a not-available result only when the history
\* holds no record.
C25_HistoryInOrder ==
    [][result'.tool = "get_api_spec_revision_history"
       => IF ApiSpecHistory = <<>>
          THEN result'.status \in {"not_available", "no_session_state"}
          ELSE result'.status = "ok" /\ result'.entries = ApiSpecHistory]_vars

(***************************************************************************)
(* Schema validator.                                                       *)
(***************************************************************************)
\* C26: after validate_against_schema with a schema that is one, the errors
\* list reports every violation of the schema that the data holds: as many
\* entries as violations, one for each.
C26_AllViolationsReported ==
    (/\ result.tool = "validate_against_schema"
     /\ (CHOOSE i \in validation_input : TRUE).schema.type = "object")
    => LET input == CHOOSE i \in validation_input : TRUE
       IN  {result.errors[n] : n \in 1..Len(result.errors)}
               = Violations(input.data, input.schema)

(***************************************************************************)
(* Workflow state: phases and statuses.                                    *)
(***************************************************************************)
\* C27: in every reachable state current_phase is one of the seven phases of
\* WorkflowPhase and workflow_status one of the five values of WorkflowStatus.
C27_PhaseAndStatusDefined ==
    /\ CurrentPhase \in WorkflowPhase
    /\ WorkflowStatusNow \in WorkflowStatus

\* C28: a step that moves workflow_status out of "failed" is a successful
\* transition_workflow_phase, and it leaves the status at "in_progress"; no
\* other operation changes a failed status.
C28_FailedUntilTransition ==
    [][(WorkflowStatusNow = "failed" /\ WorkflowStatusNow' # "failed")
       => /\ result' = Ret("transition_workflow_phase", "ok")
          /\ WorkflowStatusNow' = "in_progress"]_vars

\* C29: transition_workflow_phase with validation_required false succeeds
\* from every current phase to every target: current_phase becomes the
\* target, workflow_status becomes "in_progress", and phase_history grows by
\* exactly one record, from the previous phase to the target, whose
\* transition_type "automatic" is not the "validated" of a checked transition.
C29_ForcedTransition ==
    [][\A target_phase \in TargetPhases :
           (/\ result'.tool = "transition_workflow_phase"
            /\ transition_workflow_phase(target_phase, FALSE))
           => /\ result'.status = "ok"
              /\ CurrentPhase' = target_phase
              /\ WorkflowStatusNow' = "in_progress"
              /\ Len(PhaseHistory') = Len(PhaseHistory) + 1
              /\ SubSeq(PhaseHistory', 1, Len(PhaseHistory)) = PhaseHistory
              /\ LET last == PhaseHistory'[Len(PhaseHistory')]
                 IN  /\ last.from_phase = CurrentPhase
                     /\ last.to_phase = target_phase
                     /\ last.transition_type = "automatic"
                     /\ last.transition_type # "validated"]_vars

\* a forced transition has left a phase other than planning along an edge
\* that the table does not hold
C29_Witness ==
    /\ result = Ret("transition_workflow_phase", "ok")
    /\ PhaseHistory # <<>>
    /\ LET last == PhaseHistory[Len(PhaseHistory)]
       IN  /\ last.transition_type = "automatic"
           /\ last.from_phase # "planning"
           /\ <<last.from_phase, last.to_phase>> \notin LegalEdges
           /\ CurrentPhase = last.to_phase

\* C30: every step that changes current_phase from A to B appends to
\* phase_history one record with from_phase A and to_phase B and stamps
\* last_phase_update with the instant of the step, whichever operation makes
\* the change; the last record of phase_history then names current_phase.
C30_PhaseChangeRecorded ==
    [][CurrentPhase' # CurrentPhase
       => /\ Len(PhaseHistory') = Len(PhaseHistory) + 1
          /\ SubSeq(PhaseHistory', 1, Len(PhaseHistory)) = PhaseHistory
          /\ PhaseHistory'[Len(PhaseHistory')].from_phase = CurrentPhase
          /\ PhaseHistory'[Len(PhaseHistory')].to_phase = CurrentPhase'
          /\ Get(team_session_state', "last_phase_update", <<>>) = Isoformat(clock')]_vars

\* C31: handle_error with recovery action rollback, called while phase_history
\* holds two or more entries, leaves current_phase at the phase the workflow
\* was in just before its most recent transition: the from_phase of the last
\* entry of phase_history.
C31_RollbackBeforeLastTransition ==
    [][(result' = Ret("handle_workflow_error", "rollback") /\ Len(PhaseHistory) >= 2)
       => \A et \in ErrorTypes :
             handle_workflow_error(et, <<"boom">>, "rollback")
             => CurrentPhase' = PhaseHistory[Len(PhaseHistory)].from_phase]_vars

(***************************************************************************)
(* Order of the gates of the update tools.                                 *)
(***************************************************************************)
\* C32: update_project_plan with a text wrapped in a markdown code fence
\* returns the markdown rejection, the gate being applied before the text
\* is parsed, and leaves the session state unchanged.
C32_FenceRejectedAsMarkdown ==
    [][\A agent_name \in AgentNames,
          plan_data \in {t \in PlanTexts :
                            Len(t) >= 3 /\ SubSeq(t, 1, 3) = <<Backquote, Backquote, Backquote>>} :
           (/\ result'.tool = "update_project_plan"
            /\ update_project_plan(agent_name, plan_data))
           => /\ result'.status = "markdown"
              /\ team_session_state' = team_session_state]_vars

(***************************************************************************)
(* Revision management by the orchestrator.                                *)
(***************************************************************************)
\* C33: manage_api_spec_revision with a specification stored increments its
\* revision by the change type, appends one record to api_spec_history, and
\* sets current_phase to planning for major and planner_regen, to
\* spec_generation for minor and spec_regen, and leaves it for every other
\* change type; with no specification stored it returns an error and leaves
\* the session state as it was.
C33_RevisionManagement ==
    [][\A change_type \in ChangeTypes :
           (/\ result'.tool = "manage_api_spec_revision"
            /\ manage_api_spec_revision(change_type, <<"change">>))
           => IF ApiSpec = {}
              THEN /\ result'.status = "no_api_spec"
                   /\ team_session_state' = team_session_state
              ELSE LET v == parse_version(DocGet(ApiSpec, <<"revision">>, DefaultRevision))
                       expected == C6_Expected(v.major, v.minor, v.patch, change_type)
                   IN  /\ result'.status = "ok"
                       /\ DocGet(ApiSpec', <<"revision">>, <<>>) = expected
                       /\ team_session_state'["api_spec_revision"] = expected
                       /\ Len(ApiSpecHistory') = Len(ApiSpecHistory) + 1
                       /\ SubSeq(ApiSpecHistory', 1, Len(ApiSpecHistory)) = ApiSpecHistory
                       /\ ApiSpecHistory'[Len(ApiSpecHistory')].change_type = change_type
                       /\ CurrentPhase' =
                              IF change_type \in {"major", "planner_regen"} THEN "planning"
                              ELSE IF change_type \in {"minor", "spec_regen"}
                              THEN "spec_generation"
                              ELSE CurrentPhase]_vars

\* a spec_regen revision of a stored specification has moved the workflow from
\* planning to spec_generation
C33_Witness ==
    /\ result = Ret("manage_api_spec_revision", "ok")
    /\ Len(ApiSpecHistory) = 2
    /\ ApiSpecHistory[2].change_type = "spec_regen"
    /\ PhaseHistory = <<>>
    /\ CurrentPhase = "spec_generation"
    /\ ApiSpec # {}

\* C34: any two records of api_spec_history have different revision_id
\* values, whichever calls created them and however close in time.
C34_UniqueRevisionIds ==
    \A i \in 1..Len(ApiSpecHistory), j \in 1..Len(ApiSpecHistory) :
        i # j => ApiSpecHistory[i].revision_id # ApiSpecHistory[j].revision_id

(***************************************************************************)
(* Complexity heuristic.                                                   *)
(***************************************************************************)
\* the number of lines of a content: the newline of the last line may be
\* left out
C35_Lines(content) ==
    Cardinality({j \in 1..Len(content) : content[j] = "\n"})
    + (IF content # <<>> /\ content[Len(content)] # "\n" THEN 1 ELSE 0)

\* C35: assess_code_complexity answers simple for a content of fewer than 50
\* lines, moderate for 50 to 199 lines and complex for 200 lines or more,
\* whether or not the last line ends with a newline.
C35_ComplexityByLines ==
    result.tool = "assess_code_complexity"
    => result.status = (IF C35_Lines(response_text) < 50 THEN <<"simple">>
                        ELSE IF C35_Lines(response_text) < 200 THEN <<"moderate">>
                        ELSE <<"complex">>)

(***************************************************************************)
(* Prerequisites of the generation phases.                                 *)
(***************************************************************************)
\* C36: as long as every transition has been a validated one (phase_history
\* holds no record of a forced transition), whatever updates, errors with
\* their recoveries, handoffs and revisions came between, a specification is
\* stored whenever current_phase is backend_generation or
\* frontend_generation.
C36_GenerationNeedsApiSpec ==
    (\A i \in 1..Len(PhaseHistory) : PhaseHistory[i].transition_type = "validated")
    => (CurrentPhase \in {"backend_generation", "frontend_generation"} => ApiSpec # {})

\* a rollback has led back into backend_generation, after validated
\* transitions only
C36_Witness ==
    /\ result = Ret("handle_workflow_error", "rollback")
    /\ CurrentPhase = "backend_generation"
    /\ Len(PhaseHistory) = 4
    /\ \A i \in 1..Len(PhaseHistory) : PhaseHistory[i].transition_type = "validated"
    /\ ErrorHistory[Len(ErrorHistory)].phase = "validation"
    /\ ApiSpec # {}

(***************************************************************************)
(* Backups of the file writing tool.                                       *)
(***************************************************************************)
\* C37: a backup, once written, keeps the content that it saved: no later
\* write removes a backup file or changes what it holds, so that the content
\* a file held before each update stays available in a backup, also when
\* two updates fall into the same second.
C37_BackupsKept ==
    [][result'.tool = "write_project_file"
       => \A target \in DOMAIN files, backup \in DOMAIN files :
              IsBackupOf(backup, target)
              => backup \in DOMAIN files' /\ files'[backup] = files[backup]]_vars

(***************************************************************************)
(* Summary of the save tools.                                              *)
(***************************************************************************)
\* the file names of the artifacts of the batch whose files were written
C38_WrittenNames(base_path) ==
    LET Written(artifact) ==
            \E k \in 1..Len(created_files) :
                created_files[k] = PathJoin(base_path, artifact.filename)
        written == SelectSeq(artifacts, Written)
    IN  [i \in 1..Len(written) |-> written[i].filename]

\* C38: the summary that save_generated_files and
\* save_generated_frontend_files return names the artifacts whose files were
\* written, and only those: an artifact whose write failed is not in it.
C38_SummaryNamesWritten ==
    stage \in {"summarised_backend", "summarised_frontend"}
    => \E base_path \in BasePaths :
           [i \in 1..Len(result.summary) |-> result.summary[i].filename]
               = C38_WrittenNames(base_path)

====
